---- MODULE Spec2Model ----
(***************************************************************************)
(* Model of the EV charge planner core                                     *)
(*   custom_components/ev_charge_planner/planner/core.py                   *)
(*   custom_components/ev_charge_planner/planner/normalise.py              *)
(*   custom_components/plannerlib/planner.py                               *)
(*                                                                         *)
(* Conventions                                                             *)
(*  - An instant is an integer count of half hours since 00:00 of the      *)
(*    date of the first day considered, in one fixed-offset timezone;      *)
(*    timedelta(minutes=30) is 1.  Timestamps that are not aligned to a    *)
(*    half hour are not represented.                                       *)
(*  - Prices and percentages are integers; every float the code derives    *)
(*    from them (energy, hours, averages) is an exact rational             *)
(*    [num, den] with den > 0, compared by cross multiplication.  Float    *)
(*    rounding is not modelled.                                            *)
(*  - Optional[T] is a sequence: << >> is None and << x >> is x.           *)
(*  - Human-readable reason / summary texts are not modelled.              *)
(***************************************************************************)
EXTENDS Integers, Sequences, FiniteSets, TLC

VARIABLES
    call,                  \* the function being applied and its arguments
    pc,                    \* position inside the call
    ret,                   \* the value returned (None until the call returns)
    metrics,               \* plan_charging local: ChargeMetrics
    merged,                \* plan_charging local: merged rate timeline (for a
                           \* repeated merge: the result of the first merge)
    deadline_plan_blocks,  \* plan_charging local: night id -> (start, end, slots)
    deadline_status,       \* plan_charging local: DeadlineStatus.status
    hass_data              \* host: hass.data[DOMAIN] (<< >> outside the host)

vars ==
    << call, pc, ret, metrics, merged, deadline_plan_blocks, deadline_status,
       hass_data >>

----------------------------------------------------------------------------
(* Bounds of the explored inputs *)

MaxPrice == 2
SearchMaxLen == 4
SearchMaxStart == 4
SearchMaxN == 3
MergeMaxLen == 2
ParseMaxLen == 2
ParseMaxHalves == 3

----------------------------------------------------------------------------
(* Values *)

None == << >>
Some(x) == << x >>

Rat(n, d) == [num |-> n, den |-> d]
RatLt(a, b) == a.num * b.den < b.num * a.den
RatEq(a, b) == a.num * b.den = b.num * a.den
RatLe(a, b) == a.num * b.den <= b.num * a.den

Max2(a, b) == IF a >= b THEN a ELSE b
Min2(a, b) == IF a <= b THEN a ELSE b

RateSlot(s, p) == [start |-> s, price |-> p]

HALF_HOUR == 1

----------------------------------------------------------------------------
(* sorted(..., key=lambda s: s.start): Python's sort is stable *)

\* position i goes before position j: smaller start, or equal start and
\* earlier in the input
SortedByStart(seq) ==
    LET Before(i, j) ==
            \/ seq[i].start < seq[j].start
            \/ seq[i].start = seq[j].start /\ i < j
        rank == [i \in DOMAIN seq |->
                    1 + Cardinality({j \in DOMAIN seq : Before(j, i)})]
        at == [r \in DOMAIN seq |-> CHOOSE i \in DOMAIN seq : rank[i] = r]
    IN  [r \in DOMAIN seq |-> seq[at[r]]]

IsSortedByStart(seq) ==
    \A i \in 1..(Len(seq) - 1) : seq[i].start <= seq[i + 1].start

----------------------------------------------------------------------------
(* core._contiguous_block_cheapest *)

\* mutant of RunOk: the 30-minute check is dropped
RunOk_NoGapCheck(slots, i, n) == TRUE

\* inner loop, lines 118-124: every slot after the first starts exactly
\* 30 minutes after its predecessor
RunOk(slots, i, n) ==
    \A j \in 1..(n - 1) : slots[i + j].start = slots[i + j - 1].start + HALF_HOUR

RECURSIVE RunTotal(_, _, _)
RunTotal(slots, i, n) ==
    IF n = 0 THEN 0 ELSE RunTotal(slots, i, n - 1) + slots[i + n - 1].price

\* mutant of BetterTotal: a tie replaces the best so far
BetterTotal_OrEqual(total, best) == best = None \/ total <= best[1].total

\* line 127: best is replaced only by a strictly smaller total
BetterTotal(total, best) == best = None \/ total < best[1].total

\* outer loop, lines 115-128, from index i (1-based) with the best so far
RECURSIVE ScanBest(_, _, _, _)
ScanBest(slots, n, i, best) ==
    IF i > Len(slots) - n + 1 THEN best
    ELSE LET total == RunTotal(slots, i, n)
             nb == IF RunOk(slots, i, n) /\ BetterTotal(total, best)
                   THEN Some([total |-> total, idx |-> i])
                   ELSE best
         IN  ScanBest(slots, n, i + 1, nb)

ContiguousBlockCheapest(slots, needed_slots) ==
    IF needed_slots <= 0 THEN None
    ELSE IF Len(slots) < needed_slots THEN None
    ELSE LET best == ScanBest(slots, needed_slots, 1, None)
         IN  IF best = None THEN None
             ELSE LET i == best[1].idx
                  IN  Some([start |-> slots[i].start,
                            end   |-> slots[i + needed_slots - 1].start + HALF_HOUR,
                            avg   |-> Rat(best[1].total, needed_slots)])

----------------------------------------------------------------------------
(* plannerlib.planner._contiguous_best *)

FilterWindow(slots, ws, we) ==
    SelectSeq(slots, LAMBDA s : ws <= s.start /\ s.start < we)

LegacyRunOk(cand, i, n) ==
    \A j \in 0..(n - 1) : cand[i + j].start = cand[i].start + j * HALF_HOUR

RECURSIVE LegacyScan(_, _, _, _)
LegacyScan(cand, n, i, best) ==
    IF i > Len(cand) - n + 1 THEN best
    ELSE LET s == RunTotal(cand, i, n)
             nb == IF LegacyRunOk(cand, i, n) /\ (best = None \/ s < best[1].sum)
                   THEN Some([start |-> cand[i].start,
                              end   |-> cand[i].start + n * HALF_HOUR,
                              sum   |-> s])
                   ELSE best
         IN  LegacyScan(cand, n, i + 1, nb)

ContiguousBest(slots, ws, we, n) ==
    LET cand == SortedByStart(FilterWindow(slots, ws, we))
    IN  IF Len(cand) < n THEN None ELSE LegacyScan(cand, n, 1, None)

----------------------------------------------------------------------------
(* Rate merger: a Python dict keyed by start is a function from the starts
   to the slots; sorted(out.values(), key=start) lists it by ascending key *)

\* {s.start: s for s in seq}, and "for s in seq: out[s.start] = s" on an
\* empty dict: the last slot given for a start is the one kept
DictOf(seq) ==
    [t \in { seq[i].start : i \in DOMAIN seq } |->
        seq[CHOOSE i \in DOMAIN seq :
                /\ seq[i].start = t
                /\ \A j \in DOMAIN seq : seq[j].start = t => j <= i]]

\* "for k, v in e.items(): d[k] = v"
DictOverwrite(d, e) ==
    [t \in DOMAIN d \cup DOMAIN e |-> IF t \in DOMAIN e THEN e[t] ELSE d[t]]

SortedValues(d) ==
    LET rank == [t \in DOMAIN d |-> 1 + Cardinality({u \in DOMAIN d : u < t})]
        at == [r \in 1..Cardinality(DOMAIN d) |->
                  CHOOSE t \in DOMAIN d : rank[t] = r]
    IN  [r \in 1..Cardinality(DOMAIN d) |-> d[at[r]]]

\* mutant of MergeConfirmedOverForecast: the forecast overwrites the confirmed
MergeForecastOverConfirmed(confirmed, forecast) ==
    SortedValues(DictOverwrite(DictOf(confirmed), DictOf(forecast)))

\* normalise.merge_confirmed_over_forecast
MergeConfirmedOverForecast(confirmed, forecast) ==
    SortedValues(DictOverwrite(DictOf(forecast), DictOf(confirmed)))

\* mutant of CoreMergeConfirmedOverForecast: the two lists are concatenated
\* and sorted, without the dict that keeps one slot per start
CoreMerge_NoDict(confirmed, forecast) == SortedByStart(forecast \o confirmed)

\* mutant of CoreMergeConfirmedOverForecast: conf_map is written first and
\* the forecast overwrites it
CoreMerge_ForecastWins(confirmed, forecast) ==
    SortedValues(DictOverwrite(DictOf(confirmed), DictOf(forecast)))

\* core._merge_confirmed_over_forecast
CoreMergeConfirmedOverForecast(confirmed, forecast) ==
    LET conf_map == DictOf(confirmed)
        out == DictOf(forecast)
    IN  SortedValues(DictOverwrite(out, conf_map))

----------------------------------------------------------------------------
(* normalise: parse_rates_list.  A payload value is a record
   [kind, v, aware]: kind "none" is a missing key or None, "num" a number,
   "numstr" a string float() accepts, "badstr" any other non-empty string,
   "emptystr" the string "", "datetime" a datetime object and "iso" a
   string datetime.fromisoformat accepts.  v is the number in hundredths
   (100 is 1.0) or the instant; aware tells whether a datetime carries a
   timezone.  A price of a parsed slot is in hundredths of p/kWh. *)

Val(kind, v, aware) == [kind |-> kind, v |-> v, aware |-> aware]

NoVal == Val("none", 0, FALSE)

DT_KEYS == << "start", "date_time", "datetime", "from" >>

PRICE_KEYS ==
    << "price_p_per_kwh", "p_per_kwh", "agile_pred", "price", "value",
       "value_inc_vat" >>

KeysOf(keys) == { keys[i] : i \in DOMAIN keys }

\* Python truth value of a payload value: None, "", 0 and 0.0 are false
Truthy(val) ==
    /\ val.kind \notin {"none", "emptystr"}
    /\ ~(val.kind = "num" /\ val.v = 0)

\* item.get(k1) or item.get(k2) or ... : the first true value, else the
\* value under the last key
RECURSIVE GetOrChain(_, _, _)
GetOrChain(item, keys, i) ==
    IF i = Len(keys) \/ Truthy(item[keys[i]]) THEN item[keys[i]]
    ELSE GetOrChain(item, keys, i + 1)

\* _safe_float: None for None and for what float() rejects
SafeFloat(val) ==
    IF val.kind \in {"num", "numstr"} THEN Some(val.v) ELSE None

\* _parse_dt: datetime objects as they are, ISO strings parsed, None otherwise
ParseDt(val) ==
    IF val.kind \in {"datetime", "iso"}
    THEN Some([t |-> val.v, aware |-> val.aware])
    ELSE None

\* mutant of NormalisePriceToPPerKwh: the bounds of line 63 are inclusive
NormalisePrice_InclusiveBounds(price) ==
    IF -100 <= price /\ price <= 100 THEN price * 100 ELSE price

\* normalise_price_to_p_per_kwh, on hundredths: -1.0 < price < 1.0
NormalisePriceToPPerKwh(price) ==
    IF -100 < price /\ price < 100 THEN price * 100 ELSE price

\* lines 113-156 for one item: the slot appended, or None when the item is
\* skipped.  An item is [is_dict, get]: get maps every key to its value
\* (NoVal for a key the mapping does not hold).
ParseItem(item, tz_hint) ==
    IF ~item.is_dict THEN None
    ELSE LET dt == ParseDt(GetOrChain(item.get, DT_KEYS, 1))
             price == SafeFloat(GetOrChain(item.get, PRICE_KEYS, 1))
         IN  IF dt = None THEN None
             ELSE IF ~dt[1].aware /\ tz_hint = None THEN None
             ELSE IF price = None THEN None
             ELSE Some(RateSlot(dt[1].t, NormalisePriceToPPerKwh(price[1])))

RECURSIVE ParsedSlots(_, _, _)
ParsedSlots(items, tz_hint, i) ==
    IF i > Len(items) THEN << >>
    ELSE ParseItem(items[i], tz_hint) \o ParsedSlots(items, tz_hint, i + 1)

ParseRatesList(items, tz_hint) == SortedByStart(ParsedSlots(items, tz_hint, 1))

----------------------------------------------------------------------------
(* core: night windows *)

SLOTS_PER_DAY == 48       \* timedelta(days=1), in half hours
PLUG_START == 34          \* time(17, 0)
PLUG_END == 14            \* time(7, 0)
HORIZON_NIGHTS == 7
MAX_BLOCK_SLOTS == 28
ONE_HOUR_SLOTS == 2
EFFICIENCY_NUM == 9       \* DEFAULT_CHARGING_EFFICIENCY = 0.90 = 9 / 10
EFFICIENCY_DEN == 10

\* now.date(), as a day number
DateOf(t) == t \div SLOTS_PER_DAY

\* mutant of NightWindowStart: the window opens one hour early
NightWindowStart_HourEarly(now) == DateOf(now) * SLOTS_PER_DAY + PLUG_START - 2

NightWindowStart(now) == DateOf(now) * SLOTS_PER_DAY + PLUG_START

NightWindowEnd(window_start) ==
    (DateOf(window_start) + 1) * SLOTS_PER_DAY + PLUG_END

FilterSlotsInRange(slots, start, end) ==
    SortedByStart(SelectSeq(slots, LAMBDA s : start <= s.start /\ s.start < end))

BuildNightWindows(now, days) ==
    [d \in 1..days |->
        LET start == NightWindowStart(now) + (d - 1) * SLOTS_PER_DAY
        IN  [nid |-> start, start |-> start, end |-> NightWindowEnd(start)]]

----------------------------------------------------------------------------
(* plannerlib.planner: plan_tonight.  cfg is [plug_start_hour,
   plug_end_hour, charger_kw, efficiency] with efficiency a rational. *)

LEGACY_HORIZON == 7
LEGACY_ONE_HOUR_SLOTS == 2
ROUND_UP_MILLIONTHS == 999999      \* + 0.999999 before int()

\* _night_window: [plug_start_hour:00 of the day, plug_end_hour:00 of the next)
LegacyNightWindow(now, cfg, day_offset) ==
    LET d == DateOf(now) + day_offset
    IN  [ws |-> d * SLOTS_PER_DAY + 2 * cfg.plug_start_hour,
         we |-> (d + 1) * SLOTS_PER_DAY + 2 * cfg.plug_end_hour]

\* lines 49-57: int(kwh_needed / kwh_per_slot + 0.999999), with
\* kwh_needed / kwh_per_slot = a / b computed exactly
LegacySlotsNeeded(cfg, inp) ==
    LET floor == inp.min_morning_soc + inp.soc_buffer
        target == IF inp.need_full_tomorrow THEN inp.full_target_soc ELSE floor
        soc_morning_nocharge == inp.soc_now - inp.daily_soc_use
        needed_soc == Max2(0, target - soc_morning_nocharge)
        a == needed_soc * inp.battery_kwh * 2 * cfg.efficiency.den
        b == 100 * cfg.charger_kw * cfg.efficiency.num
    IN  IF b > 0
        THEN (a \div b)
             + (IF (a % b) >= (b + ROUND_UP_MILLIONTHS) \div (ROUND_UP_MILLIONTHS + 1)
                   /\ (a % b) > 0
                THEN 1 ELSE 0)
        ELSE 0

\* lines 64-69: the first night of the horizon with the lowest 2-slot sum
RECURSIVE LegacyBestWeek(_, _, _, _, _)
LegacyBestWeek(slots, now, cfg, d, best_week) ==
    IF d >= LEGACY_HORIZON THEN best_week
    ELSE LET w == LegacyNightWindow(now, cfg, d)
             b == ContiguousBest(slots, w.ws, w.we, LEGACY_ONE_HOUR_SLOTS)
             nb == IF b # None /\ (best_week = None \/ b[1].sum < best_week[1].sum)
                   THEN Some([d |-> d, start |-> b[1].start, end |-> b[1].end,
                              sum |-> b[1].sum])
                   ELSE best_week
         IN  LegacyBestWeek(slots, now, cfg, d + 1, nb)

LegacyPlan(state, start, end, hours) ==
    [state |-> state, start |-> start, end |-> end, hours |-> hours]

\* plan_tonight for a non-empty slot list and a timezone-aware now
\* (lines 49-94)
PlanTonight(now, cfg, inp, slots) ==
    LET w0 == LegacyNightWindow(now, cfg, 0)
        tonight_best_1h == ContiguousBest(slots, w0.ws, w0.we, LEGACY_ONE_HOUR_SLOTS)
        best_week == LegacyBestWeek(slots, now, cfg, 0, None)
        is_cheapest_week ==
            /\ tonight_best_1h # None
            /\ best_week # None
            /\ best_week[1].d = 0
            /\ best_week[1].sum = tonight_best_1h[1].sum
        needed == LegacySlotsNeeded(cfg, inp)
        slots_needed == IF needed = 0 /\ is_cheapest_week
                        THEN LEGACY_ONE_HOUR_SLOTS ELSE needed
        best == ContiguousBest(slots, w0.ws, w0.we, slots_needed)
    IN  IF slots_needed = 0 THEN LegacyPlan("NO_NEED", None, None, Rat(0, 1))
        ELSE IF best = None THEN LegacyPlan("NO_DATA", None, None, Rat(0, 1))
        ELSE LegacyPlan("PLUG_IN", Some(best[1].start), Some(best[1].end),
                        Rat(slots_needed, 2))

----------------------------------------------------------------------------
(* core: charge metrics *)

RequiredSocForTomorrow(inputs) ==
    LET floor == inputs.min_morning_soc_pct + inputs.soc_buffer_pct
    IN  IF inputs.full_tomorrow_enabled
        THEN inputs.full_tomorrow_target_soc_pct
        ELSE floor

ProjectedSocTomorrowMorning(inputs) ==
    Max2(0, inputs.current_soc_pct - inputs.daily_usage_pct)

NeededChargeSocPctForTomorrow(inputs) ==
    Max2(0, RequiredSocForTomorrow(inputs) - ProjectedSocTomorrowMorning(inputs))

\* max(0.0, battery_kwh * (soc_pct / 100.0))
EnergyKwhFromSocPct(battery_kwh, soc_pct) ==
    Rat(Max2(0, battery_kwh * soc_pct), 100)

NeededEnergyKwh(inputs, needed_soc_pct) ==
    EnergyKwhFromSocPct(inputs.battery_capacity_kwh, needed_soc_pct)

\* wall_kwh = energy_kwh / efficiency; hours = wall_kwh / charger_power_kw
HoursNeededForEnergy(inputs, energy_kwh) ==
    IF inputs.charger_power_kw <= 0 THEN Rat(0, 1)
    ELSE Rat(energy_kwh.num * EFFICIENCY_DEN,
             energy_kwh.den * EFFICIENCY_NUM * inputs.charger_power_kw)

\* _ceil_slots(hours, 0.5)
CeilSlots(hours) ==
    IF hours.num <= 0 THEN 0
    ELSE LET slots == (2 * hours.num) \div hours.den
         IN  IF slots * hours.den < 2 * hours.num THEN slots + 1 ELSE slots

SlotsNeededForEnergy(inputs, energy_kwh) ==
    CeilSlots(HoursNeededForEnergy(inputs, energy_kwh))

ChargeMetrics(inputs) ==
    LET needed_soc == NeededChargeSocPctForTomorrow(inputs)
        needed_kwh == NeededEnergyKwh(inputs, needed_soc)
    IN  [needed_soc_pct    |-> needed_soc,
         needed_energy_kwh |-> needed_kwh,
         needed_hours      |-> HoursNeededForEnergy(inputs, needed_kwh),
         needed_slots      |-> SlotsNeededForEnergy(inputs, needed_kwh)]

----------------------------------------------------------------------------
(* core: charge metrics in double arithmetic.  soc_pct / 100.0,
   energy_kwh / efficiency (0.9 is not a double) and wall_kwh /
   charger_power_kw are each rounded, so the hours handed to _ceil_slots
   are the exact quotient or a double next to it.  err is the sign of
   (computed hours - exact hours). *)

FloatErrs == {0 - 1, 0, 1}

\* _ceil_slots(hours, 0.5) on the computed hours.  Off a half-hour boundary
\* the exact value is at least 1 / (900 * charger_power_kw) away from it
\* and the rounding cannot cross it.  On a boundary k * 0.5: a computed
\* value just above gives int(hours / 0.5) = k and k * 0.5 < hours, hence
\* k + 1; a computed value just below gives k - 1 and then k.
CeilSlotsRounded(hours, err) ==
    IF hours.num <= 0 THEN 0
    ELSE LET k == (2 * hours.num) \div hours.den
         IN  IF k * hours.den < 2 * hours.num THEN k + 1
             ELSE IF err > 0 THEN k + 1
             ELSE k

\* the ChargeMetrics of lines 197-207 with the rounded slot count
ChargeMetricsRounded(inputs, err) ==
    LET m == ChargeMetrics(inputs)
    IN  [m EXCEPT !.needed_slots = CeilSlotsRounded(m.needed_hours, err)]

----------------------------------------------------------------------------
(* core: plan_charging, per-night slots *)

\* night_slots[nid] = _filter_slots_in_range(merged, start, end)
NightSlots(mergedRates, windows) ==
    [nid \in { windows[d].nid : d \in DOMAIN windows } |->
        LET w == windows[CHOOSE d \in DOMAIN windows : windows[d].nid = nid]
        IN  FilterSlotsInRange(mergedRates, w.start, w.end)]

TonightPlan(state, start, end, duration_hours) ==
    [state |-> state, start |-> start, end |-> end,
     duration_hours |-> duration_hours]

\* mutant of SortedByAvg: descending by average price (reverse=True)
SortedByAvg_Descending(seq) ==
    LET Before(i, j) ==
            \/ RatLt(seq[j].avg, seq[i].avg)
            \/ RatEq(seq[i].avg, seq[j].avg) /\ i < j
        rank == [i \in DOMAIN seq |->
                    1 + Cardinality({j \in DOMAIN seq : Before(j, i)})]
        at == [r \in DOMAIN seq |-> CHOOSE i \in DOMAIN seq : rank[i] = r]
    IN  [r \in DOMAIN seq |-> seq[at[r]]]

\* mutant of SortedByAvg: candidates of equal average come out in reverse
\* order of insertion
SortedByAvg_TiesReversed(seq) ==
    LET Before(i, j) ==
            \/ RatLt(seq[i].avg, seq[j].avg)
            \/ RatEq(seq[i].avg, seq[j].avg) /\ i > j
        rank == [i \in DOMAIN seq |->
                    1 + Cardinality({j \in DOMAIN seq : Before(j, i)})]
        at == [r \in DOMAIN seq |-> CHOOSE i \in DOMAIN seq : rank[i] = r]
    IN  [r \in DOMAIN seq |-> seq[at[r]]]

\* list.sort(key=lambda x: x[0]) on tuples whose first component is avg:
\* stable, ascending by average price
SortedByAvg(seq) ==
    LET Before(i, j) ==
            \/ RatLt(seq[i].avg, seq[j].avg)
            \/ RatEq(seq[i].avg, seq[j].avg) /\ i < j
        rank == [i \in DOMAIN seq |->
                    1 + Cardinality({j \in DOMAIN seq : Before(j, i)})]
        at == [r \in DOMAIN seq |-> CHOOSE i \in DOMAIN seq : rank[i] = r]
    IN  [r \in DOMAIN seq |-> seq[at[r]]]

----------------------------------------------------------------------------
(* core: plan_charging._compute_deadline_plan *)

\* lines 258-262: the nights whose window start precedes full_by
EligibleWindows(inputs, windows) ==
    SelectSeq(windows, LAMBDA w : ~(w.start >= inputs.full_by[1]))

\* lines 278-284 for one night: s_needed = 2, 4, ..., up to max_slots
RECURSIVE CandidatesOfNight(_, _, _, _)
CandidatesOfNight(nid, slots, s_needed, max_slots) ==
    IF s_needed > max_slots THEN << >>
    ELSE LET res == ContiguousBlockCheapest(slots, s_needed)
             rest == CandidatesOfNight(nid, slots, s_needed + 2, max_slots)
         IN  IF res = None THEN rest
             ELSE << [avg |-> res[1].avg, nid |-> nid, b_start |-> res[1].start,
                      b_end |-> res[1].end, s_needed |-> s_needed] >> \o rest

\* lines 273-284 from eligible window k on
RECURSIVE NightCandidates(_, _, _)
NightCandidates(eligible, night_slots, k) ==
    IF k > Len(eligible) THEN << >>
    ELSE LET nid == eligible[k].nid
             slots == night_slots[nid]
             rest == NightCandidates(eligible, night_slots, k + 1)
         IN  IF slots = << >> THEN rest
             ELSE CandidatesOfNight(nid, slots, 2,
                                    Min2(MAX_BLOCK_SLOTS, Len(slots))) \o rest

\* mutant of GreedyAllocate: the whole candidate is taken, without the
\* min against remaining
RECURSIVE GreedyAllocate_WholeCandidate(_, _, _, _, _)
GreedyAllocate_WholeCandidate(cands, night_slots, i, remaining, blocks) ==
    IF i > Len(cands) \/ remaining <= 0
    THEN [remaining |-> remaining, blocks |-> blocks]
    ELSE LET c == cands[i]
             take == c.s_needed
             res == ContiguousBlockCheapest(night_slots[c.nid], take)
         IN  IF c.nid \in DOMAIN blocks \/ res = None
             THEN GreedyAllocate_WholeCandidate(cands, night_slots, i + 1,
                                                remaining, blocks)
             ELSE GreedyAllocate_WholeCandidate(cands, night_slots, i + 1,
                      remaining - take,
                      blocks @@ (c.nid :> [start |-> res[1].start,
                                           end   |-> res[1].end,
                                           slots |-> take]))

\* greedy loop, lines 294-307, from candidate i on; used_nights is the key
\* set of blocks (both are extended together at lines 305-306)
RECURSIVE GreedyAllocate(_, _, _, _, _)
GreedyAllocate(cands, night_slots, i, remaining, blocks) ==
    IF i > Len(cands) \/ remaining <= 0
    THEN [remaining |-> remaining, blocks |-> blocks]
    ELSE LET c == cands[i]
             take == Min2(c.s_needed, remaining)
             res == ContiguousBlockCheapest(night_slots[c.nid], take)
         IN  IF c.nid \in DOMAIN blocks \/ res = None
             THEN GreedyAllocate(cands, night_slots, i + 1, remaining, blocks)
             ELSE GreedyAllocate(cands, night_slots, i + 1, remaining - take,
                      blocks @@ (c.nid :> [start |-> res[1].start,
                                           end   |-> res[1].end,
                                           slots |-> take]))

DeadlineTotalNeededSlots(inputs) ==
    LET needed_soc == Max2(0, inputs.deadline_target_soc_pct - inputs.current_soc_pct)
    IN  SlotsNeededForEnergy(inputs, NeededEnergyKwh(inputs, needed_soc))

\* mutant of DeadlineDisabled: the target check of line 253 is dropped
DeadlineDisabled_NoTargetCheck(inputs) ==
    ~inputs.deadline_enabled \/ inputs.full_by = None

\* lines 251-254: the two returns with status DISABLED
DeadlineDisabled(inputs) ==
    \/ ~inputs.deadline_enabled \/ inputs.full_by = None
    \/ inputs.deadline_target_soc_pct <= 0

\* the status returned and the blocks written to deadline_plan_blocks
ComputeDeadlinePlan(inputs, windows, night_slots) ==
    LET NoBlocks(status) == [status |-> status, blocks |-> << >>]
    IN
    IF DeadlineDisabled(inputs) THEN NoBlocks("DISABLED")
    ELSE IF inputs.full_by[1] <= inputs.now THEN NoBlocks("AT_RISK")
    ELSE LET eligible == EligibleWindows(inputs, windows)
             total_needed_slots == DeadlineTotalNeededSlots(inputs)
             night_candidates == NightCandidates(eligible, night_slots, 1)
             alloc == GreedyAllocate(SortedByAvg(night_candidates), night_slots,
                                     1, total_needed_slots, << >>)
         IN  IF eligible = << >> THEN NoBlocks("AT_RISK")
             ELSE IF total_needed_slots = 0 THEN NoBlocks("ON_TRACK")
             ELSE IF night_candidates = << >> THEN NoBlocks("AT_RISK")
             ELSE [status |-> IF alloc.remaining > 0 THEN "AT_RISK" ELSE "ON_TRACK",
                   blocks |-> alloc.blocks]

----------------------------------------------------------------------------
(* core: plan_charging, tonight and next_charge *)

\* lines 358-367: the cheapest 1-hour block of each night that has one
RECURSIVE BestByNight(_, _, _)
BestByNight(windows, night_slots, d) ==
    IF d > Len(windows) THEN << >>
    ELSE LET nid == windows[d].nid
             slots == night_slots[nid]
             r == ContiguousBlockCheapest(slots, ONE_HOUR_SLOTS)
             rest == BestByNight(windows, night_slots, d + 1)
         IN  IF slots = << >> \/ r = None THEN rest
             ELSE << [avg |-> r[1].avg, nid |-> nid,
                      s |-> r[1].start, e |-> r[1].end] >> \o rest

\* mutant of NoPlan: a plan without a window that still carries one hour
NoPlan_OneHour(state) == TonightPlan(state, None, None, Rat(1, 1))

\* a plan without a window: start=None, end=None, duration_hours=0.0
NoPlan(state) == TonightPlan(state, None, None, Rat(0, 1))

\* mutant of RequiredChargePlan: the block is searched one slot short
RequiredChargePlan_OneSlotShort(tonight_slots, needed_slots) ==
    LET res == ContiguousBlockCheapest(tonight_slots, Max2(1, needed_slots - 1))
    IN  IF res = None THEN NoPlan("AT_RISK")
        ELSE TonightPlan("PLUG_IN", Some(res[1].start), Some(res[1].end),
                         Rat(needed_slots, 2))

\* lines 339-355: a charge is required tonight
RequiredChargePlan(tonight_slots, needed_slots) ==
    LET res == ContiguousBlockCheapest(tonight_slots, needed_slots)
    IN  IF res = None THEN NoPlan("AT_RISK")
        ELSE TonightPlan("PLUG_IN", Some(res[1].start), Some(res[1].end),
                         Rat(needed_slots, 2))

\* mutant of OpportunisticPlan: a tie with another night goes against
\* tonight (the last of the cheapest entries is taken)
OpportunisticPlan_TieToLater(windows, night_slots, tonight_id) ==
    LET best_by_night == SortedByAvg(BestByNight(windows, night_slots, 1))
    IN  IF best_by_night = << >> THEN NoPlan("NO_NEED")
        ELSE LET last == CHOOSE i \in DOMAIN best_by_night :
                            /\ RatEq(best_by_night[i].avg, best_by_night[1].avg)
                            /\ \A j \in DOMAIN best_by_night :
                                  RatEq(best_by_night[j].avg, best_by_night[1].avg)
                                      => j <= i
                 best == best_by_night[last]
             IN  IF best.nid = tonight_id
                 THEN TonightPlan("PLUG_IN", Some(best.s), Some(best.e), Rat(1, 1))
                 ELSE NoPlan("NO_NEED")

\* mutant of OpportunisticPlan: tonight's own block is taken whenever it exists
OpportunisticPlan_TonightOnly(windows, night_slots, tonight_id) ==
    LET r == ContiguousBlockCheapest(night_slots[tonight_id], ONE_HOUR_SLOTS)
    IN  IF r = None THEN NoPlan("NO_NEED")
        ELSE TonightPlan("PLUG_IN", Some(r[1].start), Some(r[1].end), Rat(1, 1))

\* lines 356-392: above the floor, 1 hour if tonight is the cheapest night
OpportunisticPlan(windows, night_slots, tonight_id) ==
    LET best_by_night == SortedByAvg(BestByNight(windows, night_slots, 1))
    IN  IF best_by_night = << >> THEN NoPlan("NO_NEED")
        ELSE LET best == best_by_night[1]
             IN  IF best.nid = tonight_id
                 THEN TonightPlan("PLUG_IN", Some(best.s), Some(best.e), Rat(1, 1))
                 ELSE NoPlan("NO_NEED")

\* mutant of DecideTonight: the nightly steps run first and the deadline
\* block is used only when they schedule nothing
DecideTonight_NightlyFirst(m, windows, night_slots, blocks) ==
    LET tonight_id == windows[1].nid
        tonight_slots == night_slots[tonight_id]
        nightly == IF tonight_slots = << >> THEN NoPlan("NO_DATA")
                   ELSE IF m.needed_slots > 0
                        THEN RequiredChargePlan(tonight_slots, m.needed_slots)
                        ELSE OpportunisticPlan(windows, night_slots, tonight_id)
    IN  IF nightly.state = "PLUG_IN" \/ tonight_id \notin DOMAIN blocks THEN nightly
        ELSE TonightPlan("PLUG_IN", Some(blocks[tonight_id].start),
                         Some(blocks[tonight_id].end),
                         Rat(blocks[tonight_id].slots, 2))

\* mutant of DecideTonight: the coverage check of line 332 is dropped
DecideTonight_NoCoverageCheck(m, windows, night_slots, blocks) ==
    LET tonight_id == windows[1].nid
        tonight_slots == night_slots[tonight_id]
    IN  IF tonight_id \in DOMAIN blocks
        THEN TonightPlan("PLUG_IN", Some(blocks[tonight_id].start),
                         Some(blocks[tonight_id].end),
                         Rat(blocks[tonight_id].slots, 2))
        ELSE IF m.needed_slots > 0
             THEN RequiredChargePlan(tonight_slots, m.needed_slots)
             ELSE OpportunisticPlan(windows, night_slots, tonight_id)

\* lines 318-392
DecideTonight(m, windows, night_slots, blocks) ==
    LET tonight_id == windows[1].nid
        tonight_slots == night_slots[tonight_id]
    IN  IF tonight_id \in DOMAIN blocks
        THEN TonightPlan("PLUG_IN", Some(blocks[tonight_id].start),
                         Some(blocks[tonight_id].end),
                         Rat(blocks[tonight_id].slots, 2))
        ELSE IF tonight_slots = << >> THEN NoPlan("NO_DATA")
        ELSE IF m.needed_slots > 0
             THEN RequiredChargePlan(tonight_slots, m.needed_slots)
             ELSE OpportunisticPlan(windows, night_slots, tonight_id)

\* mutant of NextCharge: the test of line 395 on tonight.state is dropped
NextCharge_EvenWhenPlugIn(tonight, windows, blocks) ==
    LET tonight_id == windows[1].nid
        future_nights == { nid \in DOMAIN blocks : nid > tonight_id }
    IN  IF future_nights # {}
        THEN LET nid == CHOOSE n \in future_nights : \A o \in future_nights : n <= o
             IN  Some(TonightPlan("PLUG_IN", Some(blocks[nid].start),
                                  Some(blocks[nid].end), Rat(blocks[nid].slots, 2)))
        ELSE None

\* lines 394-405
NextCharge(tonight, windows, blocks) ==
    LET tonight_id == windows[1].nid
        future_nights == { nid \in DOMAIN blocks : nid > tonight_id }
    IN  IF tonight.state # "PLUG_IN" /\ future_nights # {}
        THEN LET nid == CHOOSE n \in future_nights : \A o \in future_nights : n <= o
             IN  Some(TonightPlan("PLUG_IN", Some(blocks[nid].start),
                                  Some(blocks[nid].end), Rat(blocks[nid].slots, 2)))
        ELSE None

----------------------------------------------------------------------------
(* Block search applied to bounded inputs *)

SearchSlotSeqs ==
    UNION { { s \in [1..len -> [start : 0..SearchMaxStart, price : 1..MaxPrice]] :
                IsSortedByStart(s) } : len \in 0..SearchMaxLen }

PlanLocalsIdle ==
    /\ metrics = None
    /\ merged = << >>
    /\ deadline_plan_blocks = << >>
    /\ deadline_status = None
    /\ hass_data = << >>

InitSearch ==
    /\ \E fn \in {"_contiguous_block_cheapest", "_contiguous_best"} :
       \E s \in SearchSlotSeqs :
       \E n \in 1..SearchMaxN :
          call = [fn |-> fn, slots |-> s, n |-> n,
                  ws |-> 0, we |-> SearchMaxStart + 1]
    /\ pc = "call"
    /\ ret = None
    /\ PlanLocalsIdle

CallContiguousBlockCheapest ==
    /\ pc = "call"
    /\ call.fn = "_contiguous_block_cheapest"
    /\ ret' = ContiguousBlockCheapest(call.slots, call.n)
    /\ pc' = "done"
    /\ UNCHANGED << call, metrics, merged, deadline_plan_blocks,
                    deadline_status, hass_data >>

CallContiguousBest ==
    /\ pc = "call"
    /\ call.fn = "_contiguous_best"
    /\ ret' = ContiguousBest(call.slots, call.ws, call.we, call.n)
    /\ pc' = "done"
    /\ UNCHANGED << call, metrics, merged, deadline_plan_blocks,
                    deadline_status, hass_data >>

NextSearch == CallContiguousBlockCheapest \/ CallContiguousBest

SpecSearch == InitSearch /\ [][NextSearch]_vars

----------------------------------------------------------------------------
(* Rate merger applied to bounded inputs: lists in any order, duplicate
   timestamps included *)

MergeStarts == 0..2

MergeSlotSeqs ==
    UNION { [1..len -> [start : MergeStarts, price : 1..MaxPrice]] :
              len \in 0..MergeMaxLen }

InitMerge ==
    /\ \E fn \in {"merge_confirmed_over_forecast", "_merge_confirmed_over_forecast"} :
       \E c \in MergeSlotSeqs :
       \E f \in MergeSlotSeqs :
          call = [fn |-> fn, confirmed |-> c, forecast |-> f]
    /\ pc = "call"
    /\ ret = None
    /\ PlanLocalsIdle

CallMergeConfirmedOverForecast ==
    /\ pc = "call"
    /\ call.fn = "merge_confirmed_over_forecast"
    /\ ret' = MergeConfirmedOverForecast(call.confirmed, call.forecast)
    /\ pc' = "done"
    /\ UNCHANGED << call, metrics, merged, deadline_plan_blocks,
                    deadline_status, hass_data >>

CallCoreMergeConfirmedOverForecast ==
    /\ pc = "call"
    /\ call.fn = "_merge_confirmed_over_forecast"
    /\ ret' = CoreMergeConfirmedOverForecast(call.confirmed, call.forecast)
    /\ pc' = "done"
    /\ UNCHANGED << call, metrics, merged, deadline_plan_blocks,
                    deadline_status, hass_data >>

\* the returned list is merged with the same forecast once more; merged
\* keeps the first result
CallMergeAgain ==
    /\ pc = "done"
    /\ call.fn = "merge_confirmed_over_forecast"
    /\ merged' = ret
    /\ ret' = MergeConfirmedOverForecast(ret, call.forecast)
    /\ pc' = "again"
    /\ UNCHANGED << call, metrics, deadline_plan_blocks,
                    deadline_status, hass_data >>

CallCoreMergeAgain ==
    /\ pc = "done"
    /\ call.fn = "_merge_confirmed_over_forecast"
    /\ merged' = ret
    /\ ret' = CoreMergeConfirmedOverForecast(ret, call.forecast)
    /\ pc' = "again"
    /\ UNCHANGED << call, metrics, deadline_plan_blocks,
                    deadline_status, hass_data >>

NextMerge ==
    \/ CallMergeConfirmedOverForecast
    \/ CallCoreMergeConfirmedOverForecast
    \/ CallMergeAgain
    \/ CallCoreMergeAgain

SpecMerge == InitMerge /\ [][NextMerge]_vars

----------------------------------------------------------------------------
(* Rate parsing applied to bounded payloads *)

AllKeys == KeysOf(DT_KEYS) \cup KeysOf(PRICE_KEYS)

\* a mapping holding the given (key, value) pairs
Item(pairs) ==
    [is_dict |-> TRUE,
     get |-> [k \in AllKeys |->
                IF \E i \in DOMAIN pairs : pairs[i][1] = k
                THEN pairs[CHOOSE i \in DOMAIN pairs : pairs[i][1] = k][2]
                ELSE NoVal]]

NotADict == [is_dict |-> FALSE, get |-> [k \in AllKeys |-> NoVal]]

DtValues ==
    { Val("datetime", 1, TRUE), Val("datetime", 1, FALSE),
      Val("iso", 2, TRUE), Val("iso", 2, FALSE),
      Val("badstr", 0, FALSE), Val("emptystr", 0, FALSE), NoVal }

\* numbers from -1.5 to 1.5 in steps of 0.5, and 0.25
PriceNums == { 50 * k : k \in (0 - ParseMaxHalves)..ParseMaxHalves } \cup {25}

PriceValues ==
    { Val("num", n, FALSE) : n \in PriceNums }
    \cup { Val("numstr", 0, FALSE), Val("numstr", 50, FALSE),
           Val("badstr", 0, FALSE), Val("emptystr", 0, FALSE), NoVal }

\* mappings with one timestamp key and one price key
SingleKeyItems ==
    { Item(<< << dk, dv >>, << pk, pv >> >>) :
        dk \in KeysOf(DT_KEYS), dv \in DtValues,
        pk \in KeysOf(PRICE_KEYS), pv \in PriceValues }

\* mappings with two timestamp keys or two price keys
TwoKeyItems ==
    { Item(<< << "start", dv >>, << "from", Val("datetime", 3, TRUE) >>,
              << "value", Val("num", 150, FALSE) >> >>) :
        dv \in DtValues }
    \cup
    { Item(<< << "start", Val("datetime", 1, TRUE) >>,
              << "price_p_per_kwh", pv >>,
              << "value_inc_vat", Val("num", 25, FALSE) >> >>) :
        pv \in PriceValues }

\* the items of the longer payloads
FewItems ==
    { NotADict,
      Item(<< << "start", Val("datetime", 2, TRUE) >>,
              << "value_inc_vat", Val("num", 25, FALSE) >> >>),
      Item(<< << "start", Val("datetime", 1, TRUE) >>,
              << "agile_pred", Val("num", 150, FALSE) >> >>),
      Item(<< << "date_time", Val("iso", 1, FALSE) >>,
              << "price", Val("num", -50, FALSE) >> >>),
      Item(<< << "from", Val("iso", 1, TRUE) >>,
              << "value", Val("num", 0, FALSE) >> >>) }

ParsePayloads ==
    { << >> }
    \cup { << it >> : it \in SingleKeyItems \cup TwoKeyItems \cup {NotADict} }
    \cup UNION { [1..len -> FewItems] : len \in 2..ParseMaxLen }

InitParse ==
    /\ \/ \E items \in ParsePayloads : \E tz_hint \in {None, Some("tz")} :
             call = [fn |-> "parse_rates_list", items |-> items,
                     tz_hint |-> tz_hint]
       \/ \E price \in PriceNums :
             call = [fn |-> "normalise_price_to_p_per_kwh", price |-> price]
    /\ pc = "call"
    /\ ret = None
    /\ PlanLocalsIdle

CallParseRatesList ==
    /\ pc = "call"
    /\ call.fn = "parse_rates_list"
    /\ ret' = Some(ParseRatesList(call.items, call.tz_hint))
    /\ pc' = "done"
    /\ UNCHANGED << call, metrics, merged, deadline_plan_blocks,
                    deadline_status, hass_data >>

CallNormalisePrice ==
    /\ pc = "call"
    /\ call.fn = "normalise_price_to_p_per_kwh"
    /\ ret' = Some(NormalisePriceToPPerKwh(call.price))
    /\ pc' = "done"
    /\ UNCHANGED << call, metrics, merged, deadline_plan_blocks,
                    deadline_status, hass_data >>

NextParse == CallParseRatesList \/ CallNormalisePrice

SpecParse == InitParse /\ [][NextParse]_vars

----------------------------------------------------------------------------
(* plan_charging applied to bounded inputs.  now is 16:00 of day 0 unless
   stated; tonight's window is [34, 62), the next night's [82, 110), the
   one after [130, 158). *)

Run(start, len, price) == [i \in 1..len |-> RateSlot(start + i - 1, price)]

\* the first three half hours of tonight's window, each absent (0) or priced
TonightChoices == [34..36 -> 0..MaxPrice]

RECURSIVE SlotsOfChoice(_, _, _)
SlotsOfChoice(f, t, last) ==
    IF t > last THEN << >>
    ELSE (IF f[t] > 0 THEN << RateSlot(t, f[t]) >> ELSE << >>)
         \o SlotsOfChoice(f, t + 1, last)

\* rate data beyond those three half hours
LaterPatterns ==
    { << >>,
      Run(82, 2, 1),
      Run(82, 2, 2),
      Run(82, 4, 1) \o Run(130, 2, 2),
      Run(82, 1, 1) \o Run(130, 2, 1),
      << RateSlot(33, 1) >> \o Run(62, 2, 1) }

ForecastLists ==
    { SortedByStart(SlotsOfChoice(f, 34, 36) \o p) :
        f \in TonightChoices, p \in LaterPatterns }

ConfirmedLists ==
    { << >>, << RateSlot(35, MaxPrice + 1) >>, << RateSlot(34, MaxPrice + 1) >> }

\* a 60 kWh battery on a 7 kW charger: one half-hour slot per 5 % of SoC
\* to add, and no need that is a whole number of half hours
MainInputs ==
    [now                          : {32},
     now_tz_aware                 : {TRUE},
     current_soc_pct              : {35, 45, 60},
     daily_usage_pct              : {10},
     battery_capacity_kwh         : {60},
     charger_power_kw             : {7},
     min_morning_soc_pct          : {40},
     soc_buffer_pct               : {5},
     full_tomorrow_enabled        : BOOLEAN,
     full_tomorrow_target_soc_pct : {40},
     deadline_enabled             : BOOLEAN,
     full_by                      : {None, Some(32), Some(36), Some(100)},
     full_by_tz_aware             : {TRUE},
     deadline_target_soc_pct      : {0, 50, 70}]

DefaultInputs ==
    [now                          |-> 32,
     now_tz_aware                 |-> TRUE,
     current_soc_pct              |-> 45,
     daily_usage_pct              |-> 10,
     battery_capacity_kwh         |-> 60,
     charger_power_kw             |-> 7,
     min_morning_soc_pct          |-> 40,
     soc_buffer_pct               |-> 5,
     full_tomorrow_enabled        |-> FALSE,
     full_tomorrow_target_soc_pct |-> 40,
     deadline_enabled             |-> TRUE,
     full_by                      |-> Some(100),
     full_by_tz_aware             |-> TRUE,
     deadline_target_soc_pct      |-> 70]

\* three nights of complete data at one price (28 slots each)
FullNights == Run(34, 28, 1) \o Run(82, 28, 1) \o Run(130, 28, 1)

FullNightInputs ==
    { [DefaultInputs EXCEPT !.current_soc_pct = c, !.full_by = Some(fb),
                            !.deadline_enabled = de] :
        c \in {35, 45, 60}, fb \in {100, 200}, de \in BOOLEAN }

\* timezone-naive now or full_by
NaiveInputs ==
    { [DefaultInputs EXCEPT !.now_tz_aware = na, !.full_by = fb,
                            !.full_by_tz_aware = fa, !.deadline_enabled = de] :
        na \in BOOLEAN, fb \in {None, Some(100)}, fa \in BOOLEAN, de \in BOOLEAN }

\* other planning instants: 10:00 and 18:00 of day 0, and 02:00 of day 1
\* (inside the window that opened on day 0)
OtherNowInputs ==
    { [DefaultInputs EXCEPT !.now = n, !.full_by = fb, !.current_soc_pct = c] :
        n \in {20, 36, 52},
        fb \in {None, Some(30), Some(34), Some(35), Some(37), Some(100)},
        c \in {35, 45, 60} }

\* zero charger power or zero battery capacity
ZeroInputs ==
    { [DefaultInputs EXCEPT !.battery_capacity_kwh = z[1],
                            !.charger_power_kw = z[2],
                            !.current_soc_pct = c, !.deadline_enabled = de] :
        z \in { << 0, 7 >>, << 60, 0 >>, << 0, 0 >> },
        c \in {35, 45, 60}, de \in BOOLEAN }

\* inputs of the calls that are given confirmed rates
ConfirmedInputs ==
    { [DefaultInputs EXCEPT !.current_soc_pct = c, !.deadline_enabled = de] :
        c \in {35, 45, 60}, de \in BOOLEAN }

\* a deadline after the third night, for rate data that leaves tonight
\* without a usable block
FarDeadlineInputs ==
    { [DefaultInputs EXCEPT !.current_soc_pct = c, !.full_by = Some(200)] :
        c \in {35, 45, 60} }

FarDeadlineForecasts ==
    { Run(82, 4, 1) \o Run(130, 2, 2),
      Run(82, 2, 2) \o Run(130, 4, 1),
      Run(34, 1, 1) \o Run(82, 2, 1) \o Run(130, 2, 2),
      Run(82, 1, 2) \o Run(83, 2, 1) \o Run(85, 1, 2) \o Run(130, 2, 2) }

PlanCalls ==
    [confirmed_rates : {<< >>}, forecast_rates : ForecastLists,
     inputs : MainInputs]
    \cup [confirmed_rates : {<< >>}, forecast_rates : ForecastLists,
          inputs : ZeroInputs]
    \cup [confirmed_rates : ConfirmedLists \ {<< >>}, forecast_rates : ForecastLists,
          inputs : ConfirmedInputs]
    \cup [confirmed_rates : {<< >>}, forecast_rates : {FullNights},
          inputs : FullNightInputs]
    \cup [confirmed_rates : {<< >>},
          forecast_rates : {<< >>, Run(34, 3, 1)},
          inputs : NaiveInputs]
    \cup [confirmed_rates : {<< >>},
          forecast_rates : {Run(34, 3, 1), Run(34, 3, 1) \o Run(82, 2, 1),
                            Run(50, 4, 1) \o Run(82, 2, 2)},
          inputs : OtherNowInputs]
    \cup [confirmed_rates : {<< >>}, forecast_rates : FarDeadlineForecasts,
          inputs : FarDeadlineInputs]

\* the calls of the legacy plan_tonight: the default PlannerConfig hours
\* with a 7 kW charger, a 60 kWh battery
LegacyCfg ==
    [plug_start_hour |-> 17, plug_end_hour |-> 7, charger_kw |-> 7,
     efficiency |-> Rat(EFFICIENCY_NUM, EFFICIENCY_DEN)]

LegacyUserInputs ==
    [soc_now : {35, 45, 60}, daily_soc_use : {10}, min_morning_soc : {40},
     soc_buffer : {5}, battery_kwh : {60}, need_full_tomorrow : BOOLEAN,
     full_target_soc : {40}]

\* slot lists in the order given by the caller: cheap slots before 17:00
\* and from 07:00 on, next to tonight's
LegacySlotLists ==
    ForecastLists
    \cup { Run(20, 4, 1) \o Run(34, 28, MaxPrice),
           Run(62, 4, 1) \o Run(34, 4, MaxPrice),
           Run(58, 6, 1),
           Run(82, 2, 1) \o Run(34, 2, 1) }

LegacyCalls ==
    [fn : {"plan_tonight"}, now : {32}, now_tz_aware : {TRUE},
     cfg : {LegacyCfg}, inp : LegacyUserInputs, forecast_slots : LegacySlotLists]
    \cup
    [fn : {"plan_tonight"}, now : {32}, now_tz_aware : {FALSE},
     cfg : {LegacyCfg}, inp : LegacyUserInputs,
     forecast_slots : {<< >>, Run(34, 3, 1)}]

Init ==
    /\ \/ \E c \in PlanCalls :
             call = [fn |-> "plan_charging", confirmed_rates |-> c.confirmed_rates,
                     forecast_rates |-> c.forecast_rates, inputs |-> c.inputs]
       \/ \E c \in LegacyCalls : call = c
    /\ pc = "call"
    /\ ret = None
    /\ PlanLocalsIdle

PlanLocals ==
    << metrics, merged, deadline_plan_blocks, deadline_status, hass_data >>

Windows == BuildNightWindows(call.inputs.now, HORIZON_NIGHTS)

\* mutant of InputsNaive: full_by is only validated when the deadline mode
\* is enabled
InputsNaive_OnlyWhenDeadlineEnabled(inputs) ==
    \/ ~inputs.now_tz_aware
    \/ inputs.deadline_enabled /\ inputs.full_by # None /\ ~inputs.full_by_tz_aware

\* the conditions of lines 192 and 194
InputsNaive(inputs) ==
    \/ ~inputs.now_tz_aware
    \/ inputs.full_by # None /\ ~inputs.full_by_tz_aware

\* lines 192-195: a naive now or full_by raises ValueError; nothing is returned
PlanRaiseValueError ==
    /\ pc = "call"
    /\ call.fn = "plan_charging"
    /\ InputsNaive(call.inputs)
    /\ pc' = "raised"
    /\ UNCHANGED << call, ret, PlanLocals >>

\* lines 197-211: metrics and the merged timeline
PlanMerge ==
    /\ pc = "call"
    /\ call.fn = "plan_charging"
    /\ ~InputsNaive(call.inputs)
    /\ metrics' = Some(ChargeMetrics(call.inputs))
    /\ merged' = CoreMergeConfirmedOverForecast(call.confirmed_rates,
                                                 call.forecast_rates)
    /\ pc' = "merged"
    /\ UNCHANGED << call, ret, deadline_plan_blocks,
                    deadline_status, hass_data >>

\* mutant of NoRatesOutputs: the deadline status is computed as for a
\* non-empty timeline instead of being fixed
NoRatesOutputs_DeadlineEvaluated(inputs, m) ==
    [tonight     |-> NoPlan("NO_DATA"),
     next_charge |-> None,
     deadline    |-> [status |->
                        ComputeDeadlinePlan(inputs,
                            BuildNightWindows(inputs.now, HORIZON_NIGHTS),
                            NightSlots(<< >>,
                                BuildNightWindows(inputs.now, HORIZON_NIGHTS))).status],
     metrics     |-> m]

\* lines 214-224: the PlannerOutputs returned when merged is empty
NoRatesOutputs(inputs, m) ==
    [tonight     |-> NoPlan("NO_DATA"),
     next_charge |-> None,
     deadline    |-> [status |-> "DISABLED"],
     metrics     |-> m]

\* lines 213-224: no rate at all
PlanReturnNoRates ==
    /\ pc = "merged"
    /\ Len(merged) = 0
    /\ ret' = Some(NoRatesOutputs(call.inputs, metrics[1]))
    /\ pc' = "done"
    /\ UNCHANGED << call, PlanLocals >>

\* lines 226-316: per-night slots and the deadline plan
PlanComputeDeadline ==
    /\ pc = "merged"
    /\ Len(merged) # 0
    /\ LET plan == ComputeDeadlinePlan(call.inputs, Windows,
                                       NightSlots(merged, Windows))
       IN  /\ deadline_plan_blocks' = plan.blocks
           /\ deadline_status' = Some(plan.status)
    /\ pc' = "deadline"
    /\ UNCHANGED << call, ret, metrics, merged, hass_data >>

\* lines 318-407: tonight, next_charge and the result
PlanDecideTonight ==
    /\ pc = "deadline"
    /\ LET tonight == DecideTonight(metrics[1], Windows,
                                    NightSlots(merged, Windows),
                                    deadline_plan_blocks)
       IN  ret' = Some([tonight     |-> tonight,
                        next_charge |-> NextCharge(tonight, Windows,
                                                   deadline_plan_blocks),
                        deadline    |-> [status |-> deadline_status[1]],
                        metrics     |-> metrics[1]])
    /\ pc' = "done"
    /\ UNCHANGED << call, PlanLocals >>

\* plan_charging as one function of its arguments (the value returned when
\* no ValueError is raised)
PlanChargingOutputs(confirmed_rates, forecast_rates, inputs) ==
    LET m == ChargeMetrics(inputs)
        windows == BuildNightWindows(inputs.now, HORIZON_NIGHTS)
        mergedRates == CoreMergeConfirmedOverForecast(confirmed_rates, forecast_rates)
        night_slots == NightSlots(mergedRates, windows)
        plan == ComputeDeadlinePlan(inputs, windows, night_slots)
        tonight == DecideTonight(m, windows, night_slots, plan.blocks)
    IN  IF Len(mergedRates) = 0 THEN NoRatesOutputs(inputs, m)
        ELSE [tonight     |-> tonight,
              next_charge |-> NextCharge(tonight, windows, plan.blocks),
              deadline    |-> [status |-> plan.status],
              metrics     |-> m]

\* plan_tonight lines 45-47: no slot at all (checked before now is looked at)
PlanTonightNoSlots ==
    /\ pc = "call"
    /\ call.fn = "plan_tonight"
    /\ call.forecast_slots = << >>
    /\ ret' = Some(LegacyPlan("NO_DATA", None, None, Rat(0, 1)))
    /\ pc' = "done"
    /\ UNCHANGED << call, PlanLocals >>

\* plan_tonight line 59 with _night_window lines 12-13: a naive now raises
PlanTonightRaise ==
    /\ pc = "call"
    /\ call.fn = "plan_tonight"
    /\ call.forecast_slots # << >>
    /\ ~call.now_tz_aware
    /\ pc' = "raised"
    /\ UNCHANGED << call, ret, PlanLocals >>

\* plan_tonight lines 49-94
PlanTonightReturn ==
    /\ pc = "call"
    /\ call.fn = "plan_tonight"
    /\ call.forecast_slots # << >>
    /\ call.now_tz_aware
    /\ ret' = Some(PlanTonight(call.now, call.cfg, call.inp, call.forecast_slots))
    /\ pc' = "done"
    /\ UNCHANGED << call, PlanLocals >>

Next ==
    \/ PlanTonightNoSlots
    \/ PlanTonightRaise
    \/ PlanTonightReturn
    \/ PlanRaiseValueError
    \/ PlanMerge
    \/ PlanReturnNoRates
    \/ PlanComputeDeadline
    \/ PlanDecideTonight

Spec == Init /\ [][Next]_vars

----------------------------------------------------------------------------
(* Metrics/Cost Estimator: _estimate_cost_for_window and the two metrics
   plan_charging derives from tonight's window *)

CostMaxLen == 3
CostMaxStart == 3

\* the price of the slot of the merged sequence that starts at t
SlotPriceAt(mergedRates, t) ==
    IF \E i \in DOMAIN mergedRates : mergedRates[i].start = t
    THEN Some(mergedRates[CHOOSE i \in DOMAIN mergedRates :
                              mergedRates[i].start = t].price)
    ELSE None

\* the sum of price * charger_power_kw over the half hours of [t, end);
\* None as soon as one of them has no slot
RECURSIVE WindowCost(_, _, _, _)
WindowCost(mergedRates, t, end, charger_power_kw) ==
    IF t >= end THEN Some(0)
    ELSE LET p == SlotPriceAt(mergedRates, t)
             rest == WindowCost(mergedRates, t + HALF_HOUR, end, charger_power_kw)
         IN  IF p = None \/ rest = None THEN None
             ELSE Some(p[1] * charger_power_kw + rest[1])

\* mutant of EstimateCostForWindow: a half hour without a slot is skipped
\* and the rest is summed
RECURSIVE PartialCost(_, _, _, _)
PartialCost(mergedRates, t, end, charger_power_kw) ==
    IF t >= end THEN 0
    ELSE LET p == SlotPriceAt(mergedRates, t)
         IN  (IF p = None THEN 0 ELSE p[1] * charger_power_kw)
             + PartialCost(mergedRates, t + HALF_HOUR, end, charger_power_kw)

EstimateCost_PartialSum(mergedRates, start, end, charger_power_kw) ==
    { Some(Rat(PartialCost(mergedRates, start, end, charger_power_kw), 2)) }

\* _estimate_cost_for_window: the values it may return.  Each half hour
\* draws charger_power_kw * 0.5 kWh.  With zero power the cost is 0.0; with
\* a half hour missing it is None; which of the two is returned when both
\* apply is not settled, so both are possible.
EstimateCostForWindow(mergedRates, start, end, charger_power_kw) ==
    LET c == WindowCost(mergedRates, start, end, charger_power_kw)
    IN  IF charger_power_kw <= 0
        THEN { Some(Rat(0, 1)) } \cup (IF c = None THEN { None } ELSE {})
        ELSE IF c = None THEN { None }
        ELSE { Some(Rat(c[1], 2)) }

\* the metrics plan_charging adds for tonight's plan: the planned slot
\* count and the estimated cost of the window; 0 and None without a window
TonightMetrics(mergedRates, tonight, charger_power_kw) ==
    IF tonight.state = "PLUG_IN"
    THEN { [tonight_planned_slots  |-> (tonight.end[1] - tonight.start[1]) \div HALF_HOUR,
            tonight_estimated_cost |-> c] :
              c \in EstimateCostForWindow(mergedRates, tonight.start[1],
                                          tonight.end[1], charger_power_kw) }
    ELSE { [tonight_planned_slots |-> 0, tonight_estimated_cost |-> None] }

CostSlotSeqs ==
    UNION { { s \in [1..len -> [start : 0..CostMaxStart, price : 0..MaxPrice]] :
                \A i \in 1..(len - 1) : s[i].start < s[i + 1].start }
            : len \in 0..CostMaxLen }

CostPlanCalls ==
    [confirmed_rates : ConfirmedLists, forecast_rates : ForecastLists,
     inputs : ConfirmedInputs \cup ZeroInputs]

InitCost ==
    /\ \/ \E m \in CostSlotSeqs :
          \E start \in 0..CostMaxStart :
          \E end \in start..(CostMaxStart + 1) :
          \E kw \in {0, 7} :
             call = [fn |-> "_estimate_cost_for_window", merged |-> m,
                     start |-> start, end |-> end, charger_power_kw |-> kw]
       \/ \E c \in CostPlanCalls :
             call = [fn |-> "plan_charging", confirmed_rates |-> c.confirmed_rates,
                     forecast_rates |-> c.forecast_rates, inputs |-> c.inputs]
    /\ pc = "call"
    /\ ret = None
    /\ PlanLocalsIdle

CallEstimateCostForWindow ==
    /\ pc = "call"
    /\ call.fn = "_estimate_cost_for_window"
    /\ \E c \in EstimateCostForWindow(call.merged, call.start, call.end,
                                      call.charger_power_kw) :
          ret' = Some(c)
    /\ pc' = "done"
    /\ UNCHANGED << call, PlanLocals >>

\* plan_charging up to its return value, with the two metrics of tonight's
\* window next to the ChargeMetrics fields
CallPlanChargingWithCost ==
    /\ pc = "call"
    /\ call.fn = "plan_charging"
    /\ LET out == PlanChargingOutputs(call.confirmed_rates, call.forecast_rates,
                                      call.inputs)
           mergedRates == CoreMergeConfirmedOverForecast(call.confirmed_rates,
                                                         call.forecast_rates)
       IN  /\ merged' = mergedRates
           /\ metrics' = Some(out.metrics)
           /\ \E tm \in TonightMetrics(mergedRates, out.tonight,
                                       call.inputs.charger_power_kw) :
                 ret' = Some([tonight |-> out.tonight,
                              tonight_planned_slots |-> tm.tonight_planned_slots,
                              tonight_estimated_cost |-> tm.tonight_estimated_cost])
    /\ pc' = "done"
    /\ UNCHANGED << call, deadline_plan_blocks, deadline_status, hass_data >>

NextCost == CallEstimateCostForWindow \/ CallPlanChargingWithCost

SpecCost == InitCost /\ [][NextCost]_vars

----------------------------------------------------------------------------
(* The charge metrics applied to bounded inputs: batteries of 21, 60 and
   63 kWh on chargers of 3 and 7 kW *)

MetricsInputs ==
    { [DefaultInputs EXCEPT !.current_soc_pct = 5 * c,
                            !.daily_usage_pct = d,
                            !.battery_capacity_kwh = b,
                            !.charger_power_kw = kw,
                            !.full_tomorrow_enabled = ft,
                            !.full_tomorrow_target_soc_pct = t,
                            !.deadline_enabled = FALSE,
                            !.full_by = None] :
        c \in 0..20, d \in {0, 10}, b \in {21, 60, 63}, kw \in {3, 7},
        ft \in BOOLEAN, t \in {30, 90} }

InitMetrics ==
    /\ \E i \in MetricsInputs : call = [fn |-> "charge_metrics", inputs |-> i]
    /\ pc = "call"
    /\ ret = None
    /\ PlanLocalsIdle

\* plan_charging lines 197-207
CallChargeMetrics ==
    /\ pc = "call"
    /\ call.fn = "charge_metrics"
    /\ \E err \in FloatErrs : ret' = Some(ChargeMetricsRounded(call.inputs, err))
    /\ pc' = "done"
    /\ UNCHANGED << call, PlanLocals >>

NextMetrics == CallChargeMetrics

SpecMetrics == InitMetrics /\ [][NextMetrics]_vars

----------------------------------------------------------------------------
(* host: the confirmed-rate store (services.py, __init__.py) *)

\* hass_data models hass.data[DOMAIN]:
\*   keys             the keys of the dictionary in insertion order
\*   confirmed_rates  the value under "confirmed_rates":
\*                    key -> (ISO timestamp -> price)
\* the value under every other key is the dictionary of a loaded entry,
\* which holds the entry's coordinator.  An instant is a number of half
\* hours UTC, a datetime is a wall time with an optional UTC offset, and an
\* ISO timestamp in DEFAULT_TIME_ZONE is represented by its wall time there.

HOST_TZ_OFFSET == 2

StoreMaxRates == 1

EntryIds == {"e1", "e2"}

\* one instant written with a UTC offset and as a naive local time, a
\* second instant, and a string that is no datetime
StoreRateItems ==
    { [start |-> [ok |-> TRUE, wall |-> 34, offset |-> Some(0)],
       price_p_per_kwh |-> 1],
      [start |-> [ok |-> TRUE, wall |-> 36, offset |-> None],
       price_p_per_kwh |-> 2],
      [start |-> [ok |-> TRUE, wall |-> 37, offset |-> Some(2)],
       price_p_per_kwh |-> 1],
      [start |-> [ok |-> FALSE, wall |-> 0, offset |-> None],
       price_p_per_kwh |-> 2] }

StoreRateLists ==
    UNION { [1..n -> StoreRateItems] : n \in 0..StoreMaxRates }

\* call.data.get("entry_id"): absent, or any string the schema lets through
StoreCallEntryIds == {None, Some(""), Some("e1"), Some("coordinator")}

LoadedEntries(data) ==
    { data.keys[i] : i \in DOMAIN data.keys } \ {"confirmed_rates"}

\* dt_util.parse_datetime: None for a string that is no datetime
ParseDatetime(start) ==
    IF start.ok
    THEN Some([wall |-> start.wall, offset |-> start.offset])
    ELSE None

\* services.py lines 41-44: a naive datetime is taken in DEFAULT_TIME_ZONE,
\* the datetime is converted to DEFAULT_TIME_ZONE and written in ISO form
IsoKey(dt) ==
    LET aware ==
            IF dt.offset = None
            THEN [dt EXCEPT !.offset = Some(HOST_TZ_OFFSET)]
            ELSE dt
        utc == aware.wall - aware.offset[1]
    IN  utc + HOST_TZ_OFFSET

RECURSIVE ApplyRatesTo(_, _, _)
\* services.py lines 37-44, the loop over the rates from position i
ApplyRatesTo(per, rates, i) ==
    IF i > Len(rates)
    THEN per
    ELSE LET dt == ParseDatetime(rates[i].start) IN
         IF dt = None
         THEN ApplyRatesTo(per, rates, i + 1)
         ELSE ApplyRatesTo(
                  (IsoKey(dt[1]) :> rates[i].price_p_per_kwh) @@ per,
                  rates, i + 1)

\* services.py lines 35-44 (_apply_rates)
ApplyRates(store, target_entry_id, rates) ==
    LET per ==
            IF target_entry_id \in DOMAIN store
            THEN store[target_entry_id]
            ELSE << >>
    IN  (target_entry_id :> ApplyRatesTo(per, rates, 1)) @@ store

\* the test of lines 50 and 55 on the value under key k: a dictionary that
\* holds the key "coordinator"
HoldsCoordinator(store, k) ==
    IF k = "confirmed_rates" THEN "coordinator" \in DOMAIN store ELSE TRUE

RECURSIVE RefreshAll(_, _, _, _)
\* services.py lines 54-58, the loop over hass.data[DOMAIN].items() from
\* position i; obj["coordinator"] of the store is a dictionary of prices,
\* and calling async_request_refresh on it raises AttributeError
RefreshAll(keys, store, rates, i) ==
    IF i > Len(keys)
    THEN [store |-> store, raised |-> FALSE]
    ELSE LET k == keys[i] IN
         IF ~HoldsCoordinator(store, k)
         THEN RefreshAll(keys, store, rates, i + 1)
         ELSE IF k = "confirmed_rates"
         THEN [store |-> ApplyRates(store, k, rates), raised |-> TRUE]
         ELSE RefreshAll(keys, ApplyRates(store, k, rates), rates, i + 1)

\* services.py lines 28-58 (_handle_refresh)
HandleRefresh(data, entry_id, rates) ==
    IF entry_id # None /\ entry_id[1] # ""
    THEN LET store == ApplyRates(data.confirmed_rates, entry_id[1], rates)
         IN  [store |-> store,
              raised |-> /\ entry_id[1] = "confirmed_rates"
                         /\ HoldsCoordinator(store, entry_id[1])]
    ELSE RefreshAll(data.keys, data.confirmed_rates, rates, 1)

RemoveKey(keys, k) == SelectSeq(keys, LAMBDA x : x # k)

\* __init__.py lines 10-14 (async_setup)
InitStore ==
    /\ call = [fn |-> "async_setup"]
    /\ pc = "done"
    /\ ret = Some(TRUE)
    /\ metrics = None
    /\ merged = << >>
    /\ deadline_plan_blocks = << >>
    /\ deadline_status = None
    /\ hass_data = [keys |-> << "confirmed_rates" >>, confirmed_rates |-> << >>]

\* __init__.py lines 17-27
AsyncSetupEntry ==
    \E e \in EntryIds \ LoadedEntries(hass_data) :
        /\ hass_data' = [hass_data EXCEPT !.keys = Append(@, e)]
        /\ call' = [fn |-> "async_setup_entry", entry_id |-> e]
        /\ pc' = "done"
        /\ ret' = Some(TRUE)
        /\ UNCHANGED << metrics, merged, deadline_plan_blocks, deadline_status >>

\* __init__.py lines 30-34
AsyncUnloadEntry ==
    \E e \in LoadedEntries(hass_data), unload_ok \in BOOLEAN :
        /\ hass_data' =
               IF unload_ok
               THEN [hass_data EXCEPT !.keys = RemoveKey(@, e)]
               ELSE hass_data
        /\ call' = [fn |-> "async_unload_entry", entry_id |-> e]
        /\ pc' = "done"
        /\ ret' = Some(unload_ok)
        /\ UNCHANGED << metrics, merged, deadline_plan_blocks, deadline_status >>

\* services.py lines 28-58
CallHandleRefresh ==
    \E entry_id \in StoreCallEntryIds, rates \in StoreRateLists :
        LET r == HandleRefresh(hass_data, entry_id, rates) IN
        /\ hass_data' = [hass_data EXCEPT !.confirmed_rates = r.store]
        /\ call' = [fn |-> "refresh", entry_id |-> entry_id, rates |-> rates]
        /\ pc' = IF r.raised THEN "raised" ELSE "done"
        /\ ret' = None
        /\ UNCHANGED << metrics, merged, deadline_plan_blocks, deadline_status >>

NextStore == AsyncSetupEntry \/ AsyncUnloadEntry \/ CallHandleRefresh

SpecStore == InitStore /\ [][NextStore]_vars

----------------------------------------------------------------------------
(* Properties of the block search *)

SearchReturned ==
    pc = "done" /\ call.fn \in {"_contiguous_block_cheapest", "_contiguous_best"}

HasSlotAt(slots, t) == \E i \in DOMAIN slots : slots[i].start = t

\* the sequence holds slots at t, t + 30 min, ..., t + (n - 1) * 30 min
HoldsRunFrom(slots, t, n) ==
    \A k \in 0..(n - 1) : HasSlotAt(slots, t + k * HALF_HOUR)

HoldsRun(slots, n) ==
    \E i \in DOMAIN slots : HoldsRunFrom(slots, slots[i].start, n)

HasGap(slots) ==
    \E i \in 1..(Len(slots) - 1) : slots[i + 1].start > slots[i].start + HALF_HOUR

\* C1: a window returned by the block search (core._contiguous_block_cheapest
\* and plannerlib._contiguous_best) starts at a slot of the sequence that is
\* followed by slots at every successive half hour up to n slots, and ends
\* n half hours after its start; when the sequence holds no run of n slots
\* 30 minutes apart the search returns None.  No window spans a gap.
C1_NoWindowAcrossGap ==
    SearchReturned =>
        /\ ret # None =>
              /\ HoldsRunFrom(call.slots, ret[1].start, call.n)
              /\ ret[1].end = ret[1].start + call.n * HALF_HOUR
        /\ ~HoldsRun(call.slots, call.n) => ret = None

\* C1 witness: the sequence has a gap, n >= 2, and a window is returned
C1_Witness ==
    /\ pc = "done"
    /\ call.fn = "_contiguous_block_cheapest"
    /\ call.n >= 2
    /\ HasGap(call.slots)
    /\ ret # None

RECURSIVE PriceSum(_, _, _)
PriceSum(slots, i, n) ==
    IF n = 0 THEN 0 ELSE slots[i].price + PriceSum(slots, i + 1, n - 1)

\* index windows of n slots whose starts step by exactly 30 minutes
ContiguousRuns(slots, n) ==
    { i \in 1..(Len(slots) - n + 1) :
        \A j \in 0..(n - 1) : slots[i + j].start = slots[i].start + j * HALF_HOUR }

----------------------------------------------------------------------------
(* Properties of the rate merger *)

StartsOf(seq) == { seq[i].start : i \in DOMAIN seq }

UniqueByStart(seq) ==
    \A i, j \in DOMAIN seq : i # j => seq[i].start # seq[j].start

\* the price of the (single) slot of seq that starts at t
PriceAt(seq, t) == seq[CHOOSE i \in DOMAIN seq : seq[i].start = t].price

\* C8: for confirmed and forecast each unique by start,
\* merge_confirmed_over_forecast returns exactly one slot per timestamp of
\* the union, in strictly ascending start order, at the confirmed price
\* where confirmed has the timestamp and at the forecast price elsewhere.
C8_MergeUnionConfirmedWins ==
    ( /\ pc = "done"
      /\ call.fn = "merge_confirmed_over_forecast"
      /\ UniqueByStart(call.confirmed)
      /\ UniqueByStart(call.forecast) ) =>
        /\ StartsOf(ret) = StartsOf(call.confirmed) \cup StartsOf(call.forecast)
        /\ Len(ret) = Cardinality(StartsOf(call.confirmed) \cup StartsOf(call.forecast))
        /\ \A i \in 1..(Len(ret) - 1) : ret[i].start < ret[i + 1].start
        /\ \A i \in DOMAIN ret :
              ret[i].price =
                  IF ret[i].start \in StartsOf(call.confirmed)
                  THEN PriceAt(call.confirmed, ret[i].start)
                  ELSE PriceAt(call.forecast, ret[i].start)

\* C8 witness: a timestamp in both lists at different prices, a timestamp
\* only in the forecast, and the forecast given out of order
C8_Witness ==
    /\ pc = "done"
    /\ call.fn = "merge_confirmed_over_forecast"
    /\ UniqueByStart(call.confirmed)
    /\ UniqueByStart(call.forecast)
    /\ ~IsSortedByStart(call.forecast)
    /\ \E t \in StartsOf(call.confirmed) \cap StartsOf(call.forecast) :
          PriceAt(call.confirmed, t) # PriceAt(call.forecast, t)
    /\ StartsOf(call.forecast) \ StartsOf(call.confirmed) # {}
    /\ Len(ret) >= 2

----------------------------------------------------------------------------
(* Properties of plan_charging *)

PlanReturned == pc = "done" /\ call.fn = "plan_charging"

\* plan_charging returned from the end of the function (line 407)
PlanPlanned == PlanReturned /\ merged # << >>

TonightId == SLOTS_PER_DAY * (call.inputs.now \div SLOTS_PER_DAY) + PLUG_START

\* the night ids of the horizon: 17:00 of the date of now and of the six
\* following days
HorizonNightIds == { TonightId + d * SLOTS_PER_DAY : d \in 0..(HORIZON_NIGHTS - 1) }

\* the merged slots that start in the plug window [17:00, 07:00) of a night
WindowSlots(nid) ==
    SelectSeq(merged, LAMBDA s : nid <= s.start /\ s.start < nid + 28)

MinRunSum(slots, n) ==
    LET runs == ContiguousRuns(slots, n)
    IN  PriceSum(slots,
                 CHOOSE i \in runs :
                     \A k \in runs : PriceSum(slots, i, n) <= PriceSum(slots, k, n),
                 n)

\* the length of the longest contiguous run of a slot sequence (0 if empty)
MaxRunLen(slots) ==
    CHOOSE n \in 0..Len(slots) :
        /\ n = 0 \/ ContiguousRuns(slots, n) # {}
        /\ \A m \in (n + 1)..Len(slots) : ContiguousRuns(slots, m) = {}

DeadlineActive ==
    /\ call.inputs.deadline_enabled
    /\ call.inputs.full_by # None
    /\ call.inputs.full_by[1] > call.inputs.now
    /\ call.inputs.deadline_target_soc_pct > 0

EligibleNightIds == { nid \in HorizonNightIds : nid < call.inputs.full_by[1] }

RECURSIVE SumOver(_, _)
SumOver(S, f) ==
    IF S = {} THEN 0
    ELSE LET x == CHOOSE y \in S : TRUE IN f[x] + SumOver(S \ {x}, f)

\* slots obtainable with at most one contiguous block of at most 28 slots
\* per eligible night
CoverableSlots ==
    SumOver(EligibleNightIds,
            [nid \in EligibleNightIds |-> Min2(28, MaxRunLen(WindowSlots(nid)))])

\* the slots the deadline target asks for: one per started half hour of
\* charging (target - current) % of the battery at charger_power_kw * 0.90
DeadlineNeed ==
    LET soc == Max2(0, call.inputs.deadline_target_soc_pct
                         - call.inputs.current_soc_pct)
        num == 20 * soc * call.inputs.battery_capacity_kwh
        den == 900 * call.inputs.charger_power_kw
    IN  IF call.inputs.charger_power_kw <= 0 THEN 0
        ELSE (num + den - 1) \div den

\* C2 (as claimed): with deadline mode active and the needed slot count
\* coverable by the eligible nights' data, taking at most one contiguous
\* block of at most 28 slots per eligible night, deadline.status is ON_TRACK.
C2_CoverableDeadlineOnTrack ==
    ( /\ PlanPlanned
      /\ DeadlineActive
      /\ DeadlineNeed > 0
      /\ DeadlineNeed <= CoverableSlots ) =>
        ret[1].deadline.status = "ON_TRACK"

\* C3 (as claimed): every block the deadline allocator assigns ends at or
\* before full_by.
C3_BlocksEndByDeadline ==
    PlanPlanned =>
        \A nid \in DOMAIN deadline_plan_blocks :
            deadline_plan_blocks[nid].end <= call.inputs.full_by[1]

\* C4: no deadline block on tonight, tonight's window holds a slot and
\* needed_slots > 0: if the window holds a contiguous run of needed_slots
\* slots, tonight is PLUG_IN on a minimum-price-sum run of exactly
\* needed_slots slots of tonight's window, for needed_slots * 0.5 hours;
\* otherwise tonight is AT_RISK with no start, no end and duration 0.
C4_RequiredChargeTonight ==
    ( /\ PlanPlanned
      /\ TonightId \notin DOMAIN deadline_plan_blocks
      /\ WindowSlots(TonightId) # << >>
      /\ ret[1].metrics.needed_slots > 0 ) =>
        LET slots == WindowSlots(TonightId)
            n == ret[1].metrics.needed_slots
            runs == ContiguousRuns(slots, n)
            t == ret[1].tonight
        IN  IF runs # {}
            THEN /\ t.state = "PLUG_IN"
                 /\ \E i \in runs :
                       /\ t.start = Some(slots[i].start)
                       /\ t.end = Some(slots[i].start + n * HALF_HOUR)
                       /\ PriceSum(slots, i, n) = MinRunSum(slots, n)
                 /\ RatEq(t.duration_hours, Rat(n, 2))
            ELSE /\ t.state = "AT_RISK"
                 /\ t.start = None /\ t.end = None
                 /\ RatEq(t.duration_hours, Rat(0, 1))

\* C4 witness: a required charge of at least 2 slots is placed on a run that
\* is not the first of tonight's window, while the merged timeline also
\* holds slots outside tonight's window
C4_Witness ==
    /\ PlanPlanned
    /\ TonightId \notin DOMAIN deadline_plan_blocks
    /\ ret[1].metrics.needed_slots >= 2
    /\ ret[1].tonight.state = "PLUG_IN"
    /\ ret[1].tonight.start # Some(WindowSlots(TonightId)[1].start)
    /\ Len(merged) > Len(WindowSlots(TonightId))

\* C5 (as claimed): tonight.state is NO_NEED only when needed_soc_pct is 0.
C5_NoNeedOnlyWhenNothingNeeded ==
    (PlanReturned /\ ret[1].tonight.state = "NO_NEED") =>
        ret[1].metrics.needed_soc_pct = 0

HasTwoSlotBlock(nid) == ContiguousRuns(WindowSlots(nid), ONE_HOUR_SLOTS) # {}

\* price sum of the cheapest contiguous 2-slot block of a night (the
\* average is half of it)
BestTwoSlotSum(nid) == MinRunSum(WindowSlots(nid), ONE_HOUR_SLOTS)

\* C6: needed_slots = 0, tonight's window has rate coverage and no deadline
\* block is on tonight.  If tonight's cheapest 2-slot block is strictly
\* cheaper on average than that of every other night of the horizon,
\* tonight is PLUG_IN on exactly that block for 1.0 hour; if some later
\* night has a strictly cheaper 2-slot block, or no night has a 2-slot
\* block, tonight is NO_NEED with no window and duration 0.
C6_OpportunisticHour ==
    ( /\ PlanPlanned
      /\ ret[1].metrics.needed_slots = 0
      /\ WindowSlots(TonightId) # << >>
      /\ TonightId \notin DOMAIN deadline_plan_blocks ) =>
        LET slots == WindowSlots(TonightId)
            t == ret[1].tonight
            others == { nid \in HorizonNightIds \ {TonightId} : HasTwoSlotBlock(nid) }
        IN  /\ ( /\ HasTwoSlotBlock(TonightId)
                 /\ \A nid \in others : BestTwoSlotSum(TonightId) < BestTwoSlotSum(nid) ) =>
                    /\ t.state = "PLUG_IN"
                    /\ \E i \in ContiguousRuns(slots, ONE_HOUR_SLOTS) :
                          /\ PriceSum(slots, i, ONE_HOUR_SLOTS) = BestTwoSlotSum(TonightId)
                          /\ t.start = Some(slots[i].start)
                          /\ t.end = Some(slots[i].start + 2 * HALF_HOUR)
                    /\ RatEq(t.duration_hours, Rat(1, 1))
            /\ ( \/ /\ HasTwoSlotBlock(TonightId)
                    /\ \E nid \in others : BestTwoSlotSum(nid) < BestTwoSlotSum(TonightId)
                 \/ \A nid \in HorizonNightIds : ~HasTwoSlotBlock(nid) ) =>
                    /\ t.state = "NO_NEED"
                    /\ t.start = None /\ t.end = None
                    /\ RatEq(t.duration_hours, Rat(0, 1))

\* C6 witness: above the floor, a later night has a 2-slot block and
\* tonight's is strictly cheaper; tonight is PLUG_IN
C6_Witness ==
    /\ PlanPlanned
    /\ ret[1].metrics.needed_slots = 0
    /\ ret[1].metrics.needed_soc_pct = 0
    /\ TonightId \notin DOMAIN deadline_plan_blocks
    /\ HasTwoSlotBlock(TonightId)
    /\ \E nid \in HorizonNightIds \ {TonightId} :
          HasTwoSlotBlock(nid) /\ BestTwoSlotSum(TonightId) < BestTwoSlotSum(nid)
    /\ ret[1].tonight.state = "PLUG_IN"

\* C7: a deadline block on tonight's night makes tonight PLUG_IN with that
\* block's start and end and duration = block slots * 0.5, whatever the
\* nightly steps would give.
C7_DeadlineBlockWinsTonight ==
    (PlanPlanned /\ TonightId \in DOMAIN deadline_plan_blocks) =>
        LET b == deadline_plan_blocks[TonightId]
            t == ret[1].tonight
        IN  /\ t.state = "PLUG_IN"
            /\ t.start = Some(b.start)
            /\ t.end = Some(b.end)
            /\ RatEq(t.duration_hours, Rat(b.slots, 2))

\* C7 witness: tonight carries a deadline block although the nightly need
\* asks for more slots than the block has and tonight's window holds a run
\* of that length at another start, with the deadline AT_RISK
C7_Witness ==
    /\ PlanPlanned
    /\ TonightId \in DOMAIN deadline_plan_blocks
    /\ ret[1].deadline.status = "AT_RISK"
    /\ ret[1].metrics.needed_slots > deadline_plan_blocks[TonightId].slots
    /\ \E i \in ContiguousRuns(WindowSlots(TonightId), ret[1].metrics.needed_slots) :
          PriceSum(WindowSlots(TonightId), i, ret[1].metrics.needed_slots)
              = MinRunSum(WindowSlots(TonightId), ret[1].metrics.needed_slots)
    /\ ret[1].tonight.state = "PLUG_IN"

\* C10 (as claimed): with non-empty rate data, deadline.status is DISABLED
\* whenever deadline_enabled is false, or full_by is absent, or
\* full_by <= now, or deadline_target_soc_pct is not positive.
C10_DisabledWheneverNotActive ==
    (PlanPlanned /\ ~DeadlineActive) => ret[1].deadline.status = "DISABLED"

\* C10 (amended): with non-empty rate data, deadline.status is DISABLED
\* whenever deadline_enabled is false, or full_by is absent, or
\* deadline_target_soc_pct is not positive; when deadline_enabled is true,
\* full_by is present, the target is positive and full_by <= now, the
\* status is AT_RISK and no block is allocated.
C10_DisabledOrPastDeadline ==
    PlanPlanned =>
        /\ ( \/ ~call.inputs.deadline_enabled
             \/ call.inputs.full_by = None
             \/ call.inputs.deadline_target_soc_pct <= 0 ) =>
                ret[1].deadline.status = "DISABLED"
        /\ ( /\ call.inputs.deadline_enabled
             /\ call.inputs.full_by # None
             /\ call.inputs.deadline_target_soc_pct > 0
             /\ call.inputs.full_by[1] <= call.inputs.now ) =>
                /\ ret[1].deadline.status = "AT_RISK"
                /\ deadline_plan_blocks = << >>

\* C10 witness: deadline enabled with a positive target and full_by = now,
\* rate data present in tonight's window
C10_Witness ==
    /\ PlanPlanned
    /\ call.inputs.deadline_enabled
    /\ call.inputs.full_by = Some(call.inputs.now)
    /\ call.inputs.deadline_target_soc_pct > 0
    /\ WindowSlots(TonightId) # << >>
    /\ ret[1].deadline.status = "AT_RISK"

PlanStates == {"PLUG_IN", "NO_NEED", "NO_DATA", "AT_RISK"}

\* the plans of the returned PlannerOutputs: tonight, and next_charge when
\* it is present
ReturnedPlans ==
    {ret[1].tonight} \cup
    (IF ret[1].next_charge = None THEN {} ELSE {ret[1].next_charge[1]})

\* C11: in every returned PlannerOutputs, for tonight and for next_charge
\* when present, start and end are both non-null if and only if state is
\* PLUG_IN; in every other state start and end are both null and
\* duration_hours is 0.
C11_WindowIffPlugIn ==
    PlanReturned =>
        \A p \in ReturnedPlans :
            /\ (p.start # None /\ p.end # None) <=> (p.state = "PLUG_IN")
            /\ p.state # "PLUG_IN" =>
                  /\ p.start = None /\ p.end = None
                  /\ RatEq(p.duration_hours, Rat(0, 1))

\* C11 witness: tonight has no window (AT_RISK or NO_NEED, tonight's rates
\* present) while next_charge is present with one
C11_Witness ==
    /\ PlanPlanned
    /\ ret[1].tonight.state \in {"AT_RISK", "NO_NEED"}
    /\ ret[1].tonight.start = None
    /\ ret[1].next_charge # None
    /\ ret[1].next_charge[1].start # None

\* C12: tonight.state is NO_DATA if and only if the merged rates hold no
\* slot that starts in tonight's plug window [17:00 on the date of now,
\* 07:00 next day), whatever the needed slot count and whatever rate data
\* other nights have.
C12_NoDataIffNoCoverageTonight ==
    PlanReturned =>
        ( ret[1].tonight.state = "NO_DATA" <=> WindowSlots(TonightId) = << >> )

\* C12 witness: a car above its floor (needed_slots = 0) with rate data on a
\* later night only gets NO_DATA
C12_Witness ==
    /\ PlanPlanned
    /\ ret[1].metrics.needed_slots = 0
    /\ WindowSlots(TonightId) = << >>
    /\ HasTwoSlotBlock(TonightId + SLOTS_PER_DAY)
    /\ ret[1].tonight.state = "NO_DATA"

\* C13: with empty confirmed and empty forecast rates, every timezone-aware
\* input snapshot, whatever its deadline settings, gets tonight NO_DATA with
\* duration 0 and no window, no next_charge, and deadline.status DISABLED.
C13_NoRatesNoDataDisabled ==
    ( /\ call.fn = "plan_charging"
      /\ call.confirmed_rates = << >>
      /\ call.forecast_rates = << >>
      /\ call.inputs.now_tz_aware
      /\ call.inputs.full_by = None \/ call.inputs.full_by_tz_aware ) =>
        /\ pc # "raised"
        /\ pc = "done" =>
              /\ ret[1].tonight.state = "NO_DATA"
              /\ RatEq(ret[1].tonight.duration_hours, Rat(0, 1))
              /\ ret[1].tonight.start = None /\ ret[1].tonight.end = None
              /\ ret[1].next_charge = None
              /\ ret[1].deadline.status = "DISABLED"

\* C13 witness: no rates at all while the deadline is enabled with a future
\* full_by and a positive target
C13_Witness ==
    /\ PlanReturned
    /\ call.confirmed_rates = << >> /\ call.forecast_rates = << >>
    /\ DeadlineActive
    /\ DeadlineNeed > 0
    /\ ret[1].deadline.status = "DISABLED"
    /\ ret[1].tonight.state = "NO_DATA"

\* the nights after tonight that hold a block of the deadline plan
LaterBlockNights == { nid \in DOMAIN deadline_plan_blocks : nid > TonightId }

\* C14: next_charge is non-null if and only if tonight.state is not PLUG_IN
\* and the deadline plan holds a block on a night later than tonight; it is
\* then PLUG_IN with the start, end and duration (slots * 0.5) of the
\* earliest such night's block.  Consequently, with deadline.status ON_TRACK,
\* a positive number of slots needed for the deadline and tonight not
\* PLUG_IN, next_charge is present.
C14_NextChargeFromDeadlinePlan ==
    PlanReturned =>
        /\ ret[1].next_charge # None <=>
              (ret[1].tonight.state # "PLUG_IN" /\ LaterBlockNights # {})
        /\ ret[1].next_charge # None =>
              \E nid \in LaterBlockNights :
                 /\ \A o \in LaterBlockNights : nid <= o
                 /\ ret[1].next_charge[1].state = "PLUG_IN"
                 /\ ret[1].next_charge[1].start = Some(deadline_plan_blocks[nid].start)
                 /\ ret[1].next_charge[1].end = Some(deadline_plan_blocks[nid].end)
                 /\ RatEq(ret[1].next_charge[1].duration_hours,
                          Rat(deadline_plan_blocks[nid].slots, 2))
        /\ ( /\ ret[1].deadline.status = "ON_TRACK"
             /\ DeadlineNeed > 0
             /\ ret[1].tonight.state # "PLUG_IN" ) =>
                ret[1].next_charge # None

\* C14 witness: the deadline is ON_TRACK with a positive need, the only
\* block is on a later night, tonight has rates but is not PLUG_IN, and
\* next_charge is that block
C14_Witness ==
    /\ PlanPlanned
    /\ ret[1].deadline.status = "ON_TRACK"
    /\ DeadlineNeed > 0
    /\ WindowSlots(TonightId) # << >>
    /\ ret[1].tonight.state = "NO_NEED"
    /\ ret[1].next_charge # None

\* a second case of C14: tonight is not PLUG_IN and two later nights hold a
\* block; next_charge is the earlier one
C14_WitnessTwoLaterNights ==
    /\ PlanPlanned
    /\ Cardinality(LaterBlockNights) >= 2
    /\ ret[1].next_charge # None

DeadlineStatuses == {"ON_TRACK", "AT_RISK", "DISABLED"}

\* C15: plan_charging raises ValueError, and returns nothing, if and only if
\* now is timezone-naive or full_by is present and timezone-naive (also with
\* deadline_enabled false); every other call (zero charger power, zero
\* battery capacity, gaps, partial or empty rates included) runs to a
\* complete PlannerOutputs with tonight.state in PLUG_IN / NO_NEED /
\* NO_DATA / AT_RISK and deadline.status in ON_TRACK / AT_RISK / DISABLED.
C15_ValueErrorIffNaive ==
    LET naive == \/ ~call.inputs.now_tz_aware
                 \/ call.inputs.full_by # None /\ ~call.inputs.full_by_tz_aware
    IN  call.fn = "plan_charging" =>
           /\ naive => (pc \in {"call", "raised"} /\ ret = None)
           /\ ~naive => pc # "raised"
           /\ pc = "done" =>
                 /\ ret # None
                 /\ ret[1].tonight.state \in PlanStates
                 /\ ret[1].deadline.status \in DeadlineStatuses
                 /\ DOMAIN ret[1] = {"tonight", "next_charge", "deadline", "metrics"}

\* C15 witness: ValueError for a naive full_by although deadline_enabled is
\* false and now is timezone-aware
C15_Witness ==
    /\ pc = "raised"
    /\ call.inputs.now_tz_aware
    /\ ~call.inputs.deadline_enabled
    /\ call.inputs.full_by # None /\ ~call.inputs.full_by_tz_aware
    /\ ret = None

\* a second case of C15: a complete result with zero charger power and
\* zero battery capacity
C15_WitnessZeroPower ==
    /\ PlanPlanned
    /\ call.inputs.charger_power_kw = 0
    /\ call.inputs.battery_capacity_kwh = 0
    /\ ret[1].tonight.state \in PlanStates

----------------------------------------------------------------------------
(* Properties of the rate parser *)

ParseReturned == pc = "done" /\ call.fn = "parse_rates_list"

\* the keys of a key list under which the mapping holds a value
PresentKeys(item, keys) == { k \in KeysOf(keys) : item.get[k] # NoVal }

\* a record the parser is to keep: a mapping with a parseable timestamp
\* under a timestamp key, timezone-aware once the hint is applied, and a
\* parseable numeric price under a price key
KeepsRecord(item, tz_hint) ==
    /\ item.is_dict
    /\ \E k \in KeysOf(DT_KEYS) :
          /\ item.get[k].kind \in {"datetime", "iso"}
          /\ item.get[k].aware \/ tz_hint # None
    /\ \E k \in KeysOf(PRICE_KEYS) : item.get[k].kind \in {"num", "numstr"}

\* C16 (as claimed): parse_rates_list drops a record if and only if it is
\* not a mapping, has no parseable timestamp, is still timezone-naive after
\* the hint, or has no parseable numeric price; every other record (zero
\* and negative prices included) yields exactly one slot, so the output
\* length is the number of such records, and the output is sorted by start.
\* Stated for payloads whose mappings hold at most one timestamp key and at
\* most one price key.
C16_DropsOnlyUnparseable ==
    ( /\ ParseReturned
      /\ \A i \in DOMAIN call.items :
            /\ Cardinality(PresentKeys(call.items[i], DT_KEYS)) <= 1
            /\ Cardinality(PresentKeys(call.items[i], PRICE_KEYS)) <= 1 ) =>
        /\ Len(ret[1]) =
              Cardinality({ i \in DOMAIN call.items :
                              KeepsRecord(call.items[i], call.tz_hint) })
        /\ IsSortedByStart(ret[1])

AbsInt(x) == IF x < 0 THEN 0 - x ELSE x

\* the claimed rule on hundredths: 100 * p when |p| < 1.0, p otherwise
PenceRule(price) == IF AbsInt(price) < 100 THEN 100 * price ELSE price

\* C17: normalise_price_to_p_per_kwh(p) is 100 * p for |p| < 1.0 (negative
\* prices keep their sign, 0 stays 0) and p for |p| >= 1.0, exactly 1.0 and
\* -1.0 included; every slot parse_rates_list returns carries that rule
\* applied to a numeric value found under one of the price keys of a record.
C17_PoundsToPenceBelowOne ==
    /\ (pc = "done" /\ call.fn = "normalise_price_to_p_per_kwh") =>
          /\ ret[1] = PenceRule(call.price)
          /\ call.price < 0 => ret[1] < 0
          /\ call.price = 0 => ret[1] = 0
          /\ AbsInt(call.price) = 100 => ret[1] = call.price
    /\ ParseReturned =>
          \A j \in DOMAIN ret[1] :
             \E i \in DOMAIN call.items : \E k \in KeysOf(PRICE_KEYS) :
                /\ call.items[i].get[k].kind \in {"num", "numstr"}
                /\ ret[1][j].price = PenceRule(call.items[i].get[k].v)

\* C17 witness: the price -1.0 is returned unchanged
C17_Witness ==
    /\ pc = "done"
    /\ call.fn = "normalise_price_to_p_per_kwh"
    /\ call.price = 0 - 100
    /\ ret = Some(0 - 100)

\* a second case of C17: a record priced 0.25 under value_inc_vat is parsed
\* to a slot at 25 p/kWh
C17_WitnessParsedPounds ==
    /\ ParseReturned
    /\ Len(call.items) = 1
    /\ call.items[1].get["value_inc_vat"] = Val("num", 25, FALSE)
    /\ PresentKeys(call.items[1], PRICE_KEYS) = {"value_inc_vat"}
    /\ Len(ret[1]) = 1
    /\ ret[1][1].price = 2500

----------------------------------------------------------------------------
(* Algebraic properties of the merge *)

\* C18: merge is idempotent, merge(merge(confirmed, forecast), forecast) =
\* merge(confirmed, forecast), for all slot sequences (unsorted lists and
\* duplicate timestamps included) and for both implementations.
C18_MergeIdempotent ==
    (pc = "again" /\ call.fn \in {"merge_confirmed_over_forecast",
                                  "_merge_confirmed_over_forecast"}) =>
        ret = merged

\* C18 witness: core._merge_confirmed_over_forecast merged twice, with a
\* timestamp in both lists at different prices and a duplicate timestamp
\* inside the forecast
C18_Witness ==
    /\ pc = "again"
    /\ call.fn = "_merge_confirmed_over_forecast"
    /\ ~UniqueByStart(call.forecast)
    /\ \E i \in DOMAIN call.confirmed : \E j \in DOMAIN call.forecast :
          /\ call.confirmed[i].start = call.forecast[j].start
          /\ call.confirmed[i].price # call.forecast[j].price
    /\ ret = merged
    /\ ret # << >>

----------------------------------------------------------------------------
(* plan_charging and the merge *)

\* C19: plan_charging depends on the two rate lists only through their
\* merge with confirmed winning: plan_charging(confirmed, forecast, inputs)
\* equals plan_charging([], merge(confirmed, forecast), inputs); a slot
\* whose forecast price is cheap and whose confirmed price is expensive
\* counts at the confirmed price when the block is chosen.
C19_PlanDependsOnMergeOnly ==
    PlanReturned =>
        ret[1] = PlanChargingOutputs(<< >>,
                     MergeConfirmedOverForecast(call.confirmed_rates,
                                                call.forecast_rates),
                     call.inputs)

\* C19 witness: the forecast alone puts the cheapest block of the needed
\* length at 17:00, the confirmed price of the 17:00 slot is higher than any
\* forecast price, and tonight's block starts later
C19_Witness ==
    /\ PlanPlanned
    /\ call.confirmed_rates = << RateSlot(34, MaxPrice + 1) >>
    /\ ret[1].metrics.needed_slots > 0
    /\ PlanChargingOutputs(<< >>, call.forecast_rates, call.inputs).tonight.start
          = Some(34)
    /\ ret[1].tonight.state = "PLUG_IN"
    /\ ret[1].tonight.start = Some(35)

----------------------------------------------------------------------------
(* The plug window *)

LegacyReturned == pc = "done" /\ call.fn = "plan_tonight"

\* 17:00 on the date of the planning instant of the current call
PlugWindowStart ==
    SLOTS_PER_DAY * ((IF call.fn = "plan_tonight" THEN call.now
                      ELSE call.inputs.now) \div SLOTS_PER_DAY) + 34

\* 07:00 of the next day
PlugWindowEnd == PlugWindowStart + 28

\* C20: for half-hour-aligned rate slots, whenever tonight is PLUG_IN its
\* window [start, end) lies inside tonight's plug window: start >= 17:00 on
\* the date of now and end <= 07:00 the next day, also when cheaper slots
\* exist outside; for plan_charging (required, opportunistic and
\* deadline-assigned blocks) and for the legacy plan_tonight.
C20_PlugInInsidePlugWindow ==
    /\ (PlanReturned /\ ret[1].tonight.state = "PLUG_IN") =>
          /\ ret[1].tonight.start[1] >= PlugWindowStart
          /\ ret[1].tonight.end[1] <= PlugWindowEnd
          /\ ret[1].tonight.start[1] < ret[1].tonight.end[1]
    /\ (LegacyReturned /\ ret[1].state = "PLUG_IN") =>
          /\ ret[1].start[1] >= PlugWindowStart
          /\ ret[1].end[1] <= PlugWindowEnd
          /\ ret[1].start[1] < ret[1].end[1]

\* C20 witness: plan_charging puts tonight's block at 17:00 although a slot
\* at 16:30, contiguous with it, is cheaper than the slots of the block
C20_Witness ==
    /\ PlanPlanned
    /\ ret[1].tonight.state = "PLUG_IN"
    /\ ret[1].tonight.start = Some(PlugWindowStart)
    /\ \E i \in DOMAIN merged :
          /\ merged[i].start = PlugWindowStart - 1
          /\ \A j \in DOMAIN merged :
                (merged[j].start >= PlugWindowStart /\ merged[j].start < ret[1].tonight.end[1])
                    => merged[i].price < merged[j].price

\* a second case of C20: the legacy plan_tonight stays inside the window
\* with cheaper slots in the afternoon before it
C20_WitnessLegacy ==
    /\ LegacyReturned
    /\ ret[1].state = "PLUG_IN"
    /\ \E i \in DOMAIN call.forecast_slots :
          /\ call.forecast_slots[i].start < PlugWindowStart
          /\ call.forecast_slots[i].price < MaxPrice
    /\ \A j \in DOMAIN call.forecast_slots :
          call.forecast_slots[j].start >= PlugWindowStart
              => call.forecast_slots[j].price = MaxPrice

\* a third case of C20: tonight's block comes from the deadline plan
C20_WitnessDeadlineBlock ==
    /\ PlanPlanned
    /\ TonightId \in DOMAIN deadline_plan_blocks
    /\ ret[1].tonight.state = "PLUG_IN"
    /\ \E i \in DOMAIN merged : merged[i].start = PlugWindowEnd

----------------------------------------------------------------------------
(* The cost estimate *)

EstimateReturned == pc = "done" /\ call.fn = "_estimate_cost_for_window"

\* the half hours of the window [start, end)
HalfHoursOf(start, end) == start..(end - 1)

\* the window's price sum times power, when every half hour has a slot
FullCostTwice(seq, start, end, kw) ==
    SumOver(HalfHoursOf(start, end),
            [t \in HalfHoursOf(start, end) |-> PriceAt(seq, t) * kw])

\* what the estimator is to return for the window
CostAsSpecified(c, seq, start, end, kw) ==
    LET complete == \A t \in HalfHoursOf(start, end) : HasSlotAt(seq, t)
    IN  /\ (kw > 0 /\ complete) =>
              c # None /\ RatEq(c[1], Rat(FullCostTwice(seq, start, end, kw), 2))
        /\ (kw > 0 /\ ~complete) => c = None
        /\ (kw = 0 /\ complete) => c # None /\ c[1].num = 0
        /\ (kw = 0 /\ ~complete) => c = None \/ c[1].num = 0

\* C21: the cost estimator returns, for a window [start, end) and a merged
\* rate sequence, the sum over every half hour of the window of
\* price * charger_power_kw * 0.5; None, not a partial sum, when a half hour
\* of the window has no slot; 0.0 when charger power is zero.  plan_charging
\* reports this value with the planned slot count when tonight is PLUG_IN,
\* and 0 planned slots with a None cost otherwise.
C21_CostEstimate ==
    /\ EstimateReturned =>
          CostAsSpecified(ret[1], call.merged, call.start, call.end,
                          call.charger_power_kw)
    /\ (PlanReturned /\ ret[1].tonight.state = "PLUG_IN") =>
          /\ ret[1].tonight_planned_slots
                = ret[1].tonight.end[1] - ret[1].tonight.start[1]
          /\ RatEq(ret[1].tonight.duration_hours,
                   Rat(ret[1].tonight_planned_slots, 2))
          /\ CostAsSpecified(ret[1].tonight_estimated_cost, merged,
                             ret[1].tonight.start[1], ret[1].tonight.end[1],
                             call.inputs.charger_power_kw)
    /\ (PlanReturned /\ ret[1].tonight.state # "PLUG_IN") =>
          /\ ret[1].tonight_planned_slots = 0
          /\ ret[1].tonight_estimated_cost = None

\* C21 witness: a window of two half hours of which the second has no
\* slot, with a priced first one, gives None at positive power
C21_Witness ==
    /\ EstimateReturned
    /\ call.charger_power_kw > 0
    /\ call.end = call.start + 2
    /\ HasSlotAt(call.merged, call.start)
    /\ PriceAt(call.merged, call.start) > 0
    /\ ~HasSlotAt(call.merged, call.start + 1)
    /\ ret[1] = None

\* a second case of C21: a complete two-slot window with a positive cost
C21_WitnessFullWindow ==
    /\ EstimateReturned
    /\ call.end = call.start + 2
    /\ ret[1] # None
    /\ ret[1][1].num > 0

\* a third case of C21: plan_charging plugs in for two slots and reports
\* their cost
C21_WitnessPlanCost ==
    /\ PlanReturned
    /\ ret[1].tonight.state = "PLUG_IN"
    /\ ret[1].tonight_planned_slots = 2
    /\ ret[1].tonight_estimated_cost # None
    /\ ret[1].tonight_estimated_cost[1].num > 0

\* a fourth case of C21: plan_charging without a window tonight
C21_WitnessNoWindow ==
    /\ PlanReturned
    /\ merged # << >>
    /\ ret[1].tonight.state = "NO_NEED"
    /\ ret[1].tonight_planned_slots = 0

----------------------------------------------------------------------------
(* The length of tonight's window *)

\* C22 (as claimed): whenever plan_charging returns tonight PLUG_IN while
\* metrics.needed_slots > 0, tonight.duration_hours >= needed_slots * 0.5,
\* also when tonight's window comes from the deadline plan.
C22_PlugInCoversNeededSlots ==
    (PlanReturned /\ ret[1].tonight.state = "PLUG_IN"
        /\ ret[1].metrics.needed_slots > 0) =>
            RatLe(Rat(ret[1].metrics.needed_slots, 2),
                  ret[1].tonight.duration_hours)

----------------------------------------------------------------------------
(* The blocks of the deadline allocator *)

\* the eligible nights that hold a contiguous 2-slot block
TwoSlotNights == { nid \in EligibleNightIds : HasTwoSlotBlock(nid) }

\* the slots allocated over all nights
AllocatedSlots ==
    SumOver(DOMAIN deadline_plan_blocks,
            [nid \in DOMAIN deadline_plan_blocks |-> deadline_plan_blocks[nid].slots])

\* C23: in exact arithmetic every block the deadline allocator assigns has
\* at most 2 slots (the first candidate of a night in ascending-average
\* order is its 2-slot block, after which the night is used); the total of
\* the allocated slots is at most 2 * (number of eligible nights with a
\* contiguous 2-slot block), at most 14 over the 7-night horizon.
C23_DeadlineBlocksAtMostTwoSlots ==
    (PlanPlanned /\ pc = "done" /\ deadline_plan_blocks # << >>) =>
        /\ \A nid \in DOMAIN deadline_plan_blocks :
              /\ deadline_plan_blocks[nid].slots \in 1..ONE_HOUR_SLOTS
              /\ deadline_plan_blocks[nid].end - deadline_plan_blocks[nid].start
                    = deadline_plan_blocks[nid].slots
              /\ nid \in TwoSlotNights
        /\ AllocatedSlots <= 2 * Cardinality(TwoSlotNights)
        /\ AllocatedSlots <= 2 * HORIZON_NIGHTS

\* C23 witness: three nights of 28 contiguous slots and a need of more
\* than 6 slots: each night gets a 2-slot block
C23_Witness ==
    /\ PlanPlanned
    /\ DeadlineNeed > 6
    /\ Cardinality(DOMAIN deadline_plan_blocks) = 3
    /\ \A nid \in DOMAIN deadline_plan_blocks :
          /\ MaxRunLen(WindowSlots(nid)) = MAX_BLOCK_SLOTS
          /\ deadline_plan_blocks[nid].slots = 2


\* the deadline allocator reaches its greedy loop: deadline mode active, a
\* positive needed slot count and at least one candidate
AllocatorRuns ==
    /\ PlanPlanned
    /\ DeadlineActive
    /\ DeadlineNeed > 0
    /\ TwoSlotNights # {}

\* C24: in the deadline allocator with a positive needed slot count and at
\* least one candidate, each night receives at most one block, the sum of
\* the allocated blocks' slot counts never exceeds the needed slot count,
\* deadline.status is ON_TRACK if and only if that sum equals the needed
\* slot count and AT_RISK otherwise, and at least one block is allocated.
C24_AllocationWithinNeed ==
    AllocatorRuns =>
        /\ deadline_plan_blocks # << >>
        /\ \A nid \in DOMAIN deadline_plan_blocks :
              /\ nid \in HorizonNightIds
              /\ deadline_plan_blocks[nid].start >= nid
              /\ deadline_plan_blocks[nid].end <= nid + MAX_BLOCK_SLOTS
              /\ deadline_plan_blocks[nid].slots >= 1
        /\ AllocatedSlots <= DeadlineNeed
        /\ ret[1].deadline.status \in {"ON_TRACK", "AT_RISK"}
        /\ ret[1].deadline.status = "ON_TRACK" <=> AllocatedSlots = DeadlineNeed

\* C24 witness: blocks on two nights add up to the needed slot count
C24_Witness ==
    /\ AllocatorRuns
    /\ Cardinality(DOMAIN deadline_plan_blocks) = 2
    /\ AllocatedSlots = DeadlineNeed
    /\ ret[1].deadline.status = "ON_TRACK"

\* a second case of C24: the candidates run out before the need is met
C24_WitnessAtRisk ==
    /\ AllocatorRuns
    /\ AllocatedSlots > 0
    /\ AllocatedSlots < DeadlineNeed
    /\ ret[1].deadline.status = "AT_RISK"

\* a third case of C24: a need of one slot takes one slot of a 2-slot
\* candidate
C24_WitnessOneSlot ==
    /\ AllocatorRuns
    /\ DeadlineNeed = 1
    /\ AllocatedSlots = 1


\* the block written for night nid is a contiguous run of its slot count
\* in the night's slots, of minimum price sum among the runs of that length
IsCheapestRunOfNight(nid) ==
    LET b == deadline_plan_blocks[nid]
        ws == WindowSlots(nid)
    IN  /\ b.end - b.start = b.slots
        /\ \E i \in ContiguousRuns(ws, b.slots) :
              /\ ws[i].start = b.start
              /\ PriceSum(ws, i, b.slots) = MinRunSum(ws, b.slots)

\* C25: the deadline allocator consumes nights in ascending order of their
\* cheapest candidate block's average price: an eligible night with a
\* contiguous 2-slot block is left without a block only if every night that
\* received a block has a cheapest-block average no higher than its own;
\* and the block assigned to a night is that night's minimum-price-sum
\* contiguous block of exactly the assigned slot count.
C25_CheapestNightsFirst ==
    (PlanPlanned /\ DeadlineActive) =>
        /\ \A nid \in DOMAIN deadline_plan_blocks : IsCheapestRunOfNight(nid)
        /\ \A n \in TwoSlotNights \ DOMAIN deadline_plan_blocks :
           \A m \in DOMAIN deadline_plan_blocks :
              BestTwoSlotSum(m) <= BestTwoSlotSum(n)

\* C25 witness: a night with a 2-slot block is left out in favour of a
\* strictly cheaper later night
C25_Witness ==
    /\ PlanPlanned
    /\ DeadlineActive
    /\ \E n \in TwoSlotNights \ DOMAIN deadline_plan_blocks :
       \E m \in DOMAIN deadline_plan_blocks :
          /\ m > n
          /\ BestTwoSlotSum(m) < BestTwoSlotSum(n)

\* a second case of C25: a block of one slot that is the cheapest slot of
\* a night whose slots differ in price
C25_WitnessOneSlot ==
    /\ PlanPlanned
    /\ DeadlineActive
    /\ \E nid \in DOMAIN deadline_plan_blocks :
          /\ deadline_plan_blocks[nid].slots = 1
          /\ \E i \in DOMAIN WindowSlots(nid) :
                WindowSlots(nid)[i].price
                    > PriceAt(merged, deadline_plan_blocks[nid].start)

----------------------------------------------------------------------------
(* The needed slot count *)

MetricsReturned == pc = "done" /\ call.fn = "charge_metrics"

\* needed_soc_pct as specified
SpecifiedNeededSoc(inputs) ==
    LET required == IF inputs.full_tomorrow_enabled
                    THEN inputs.full_tomorrow_target_soc_pct
                    ELSE inputs.min_morning_soc_pct + inputs.soc_buffer_pct
    IN  Max2(0, required - Max2(0, inputs.current_soc_pct - inputs.daily_usage_pct))

\* k * 0.5 h * charger_power_kw * 0.90 >= needed_soc / 100 * battery,
\* multiplied by 100 on both sides
SlotsCover(k, inputs) ==
    45 * k * inputs.charger_power_kw
        >= SpecifiedNeededSoc(inputs) * inputs.battery_capacity_kwh

\* C26 (as claimed): for positive charger power, metrics.needed_slots is
\* the smallest integer k >= 0 such that k * 0.5 h * charger_power_kw * 0.90
\* covers the needed energy = needed_soc_pct / 100 * battery_capacity_kwh,
\* with needed_soc_pct = max(0, required - max(0, current_soc - daily_usage))
\* and required the override target when full_tomorrow_enabled, else
\* min_morning_soc + soc_buffer; a need of exactly a whole number of half
\* hours is not rounded up, and zero need gives zero slots.
C26_NeededSlotsIsCeiling ==
    (MetricsReturned /\ call.inputs.charger_power_kw > 0) =>
        /\ ret[1].needed_soc_pct = SpecifiedNeededSoc(call.inputs)
        /\ ret[1].needed_slots >= 0
        /\ SlotsCover(ret[1].needed_slots, call.inputs)
        /\ ret[1].needed_slots > 0 =>
              ~SlotsCover(ret[1].needed_slots - 1, call.inputs)

----------------------------------------------------------------------------
(* Tonight's window and the planning instant *)

\* C27 (as claimed): whenever plan_charging returns tonight PLUG_IN, the
\* recommended window is not already over: tonight.end is later than
\* inputs.now, for every now (also after 17:00, when earlier slots of
\* tonight's window are in the past, and between 00:00 and 07:00).
C27_WindowNotOver ==
    (PlanReturned /\ ret[1].tonight.state = "PLUG_IN") =>
        ret[1].tonight.end[1] > call.inputs.now

----------------------------------------------------------------------------
(* Ties in the opportunistic hour *)

\* the slots of the legacy call inside the plug window of night d, in
\* ascending order of start
LegacyWindowSlots(d) ==
    LET w == LegacyNightWindow(call.now, call.cfg, d)
    IN  SortedByStart(SelectSeq(call.forecast_slots,
                                LAMBDA s : w.ws <= s.start /\ s.start < w.we))

LegacyHasTwoSlotBlock(d) == ContiguousRuns(LegacyWindowSlots(d), 2) # {}

LegacyBestTwoSlotSum(d) == MinRunSum(LegacyWindowSlots(d), 2)

\* C28: in the opportunistic branch a tie goes to tonight: when tonight's
\* cheapest 2-slot block has the same average price as the cheapest 2-slot
\* block of one or more later nights and no night is strictly cheaper,
\* tonight is PLUG_IN for 1 hour; so under a flat price across the horizon,
\* or when tonight is the only night with data, a car above its floor is
\* told to charge 1 hour whatever the price level.  The same holds for the
\* legacy plan_tonight.
C28_TieGoesToTonight ==
    /\ ( /\ PlanPlanned
         /\ ret[1].metrics.needed_slots = 0
         /\ TonightId \notin DOMAIN deadline_plan_blocks
         /\ HasTwoSlotBlock(TonightId)
         /\ \A nid \in HorizonNightIds \ {TonightId} :
               HasTwoSlotBlock(nid) =>
                   BestTwoSlotSum(TonightId) <= BestTwoSlotSum(nid) ) =>
            /\ ret[1].tonight.state = "PLUG_IN"
            /\ RatEq(ret[1].tonight.duration_hours, Rat(1, 1))
            /\ ret[1].tonight.end[1] = ret[1].tonight.start[1] + 2
    /\ ( /\ LegacyReturned
         /\ call.forecast_slots # << >>
         /\ LegacySlotsNeeded(call.cfg, call.inp) = 0
         /\ LegacyHasTwoSlotBlock(0)
         /\ \A d \in 1..(LEGACY_HORIZON - 1) :
               LegacyHasTwoSlotBlock(d) =>
                   LegacyBestTwoSlotSum(0) <= LegacyBestTwoSlotSum(d) ) =>
            /\ ret[1].state = "PLUG_IN"
            /\ RatEq(ret[1].hours, Rat(1, 1))
            /\ ret[1].end[1] = ret[1].start[1] + 2

\* C28 witness: above the floor, tonight's cheapest 2-slot block ties with
\* a later night's and plan_charging plugs in for 1 hour
C28_Witness ==
    /\ PlanPlanned
    /\ ret[1].metrics.needed_slots = 0
    /\ TonightId \notin DOMAIN deadline_plan_blocks
    /\ HasTwoSlotBlock(TonightId)
    /\ \E nid \in HorizonNightIds \ {TonightId} :
          HasTwoSlotBlock(nid) /\ BestTwoSlotSum(TonightId) = BestTwoSlotSum(nid)
    /\ ret[1].tonight.state = "PLUG_IN"

\* a second case of C28: the same tie in the legacy plan_tonight
C28_WitnessLegacy ==
    /\ LegacyReturned
    /\ call.forecast_slots # << >>
    /\ LegacySlotsNeeded(call.cfg, call.inp) = 0
    /\ LegacyHasTwoSlotBlock(0)
    /\ \E d \in 1..(LEGACY_HORIZON - 1) :
          LegacyHasTwoSlotBlock(d) /\ LegacyBestTwoSlotSum(0) = LegacyBestTwoSlotSum(d)
    /\ ret[1].state = "PLUG_IN"

\* a third case of C28: tonight is the only night with data, at the highest
\* price
C28_WitnessOnlyNight ==
    /\ PlanPlanned
    /\ ret[1].metrics.needed_slots = 0
    /\ TonightId \notin DOMAIN deadline_plan_blocks
    /\ \A i \in DOMAIN merged :
          /\ merged[i].start >= TonightId
          /\ merged[i].start < TonightId + MAX_BLOCK_SLOTS
          /\ merged[i].price = MaxPrice
    /\ ret[1].tonight.state = "PLUG_IN"

----------------------------------------------------------------------------
(* Key priority in the rate parser *)

\* the value under the first key of the priority list that the record holds
FirstPresent(item, keys) ==
    IF PresentKeys(item, keys) = {} THEN NoVal
    ELSE item.get[keys[CHOOSE i \in DOMAIN keys :
                          /\ item.get[keys[i]] # NoVal
                          /\ \A j \in 1..(i - 1) : item.get[keys[j]] = NoVal]]

\* C29 (as claimed): when a record carries more than one recognized key,
\* parse_rates_list uses the value under the first key, in the fixed
\* priority order (timestamp: start, date_time, datetime, from; price:
\* price_p_per_kwh, p_per_kwh, agile_pred, price, value, value_inc_vat),
\* that is present in the record; a lower-priority key is consulted only
\* when every higher-priority key is absent.  Stated on the slot returned
\* for a one-record payload: its start and price come from those values.
C29_FirstPresentKeyUsed ==
    ( /\ ParseReturned
      /\ Len(call.items) = 1
      /\ call.items[1].is_dict
      /\ ret[1] # << >> ) =>
        LET dt == ParseDt(FirstPresent(call.items[1], DT_KEYS))
            price == SafeFloat(FirstPresent(call.items[1], PRICE_KEYS))
        IN  /\ dt # None
            /\ price # None
            /\ ret[1] = << RateSlot(dt[1].t, PenceRule(price[1])) >>


----------------------------------------------------------------------------
(* Properties of the host store *)

\* the instant of a rate's start, None if the string is no datetime
InstantOf(start) ==
    IF ~start.ok
    THEN None
    ELSE IF start.offset = None
    THEN Some(start.wall - HOST_TZ_OFFSET)
    ELSE Some(start.wall - start.offset[1])

\* the ISO timestamp, in DEFAULT_TIME_ZONE, of an instant
TimestampOf(instant) == instant + HOST_TZ_OFFSET

\* the timestamps a call carries
CarriedTimestamps(rates) ==
    { TimestampOf(InstantOf(rates[i].start)[1]) :
        i \in { j \in DOMAIN rates : InstantOf(rates[j].start) # None } }

\* the price the call carries for timestamp ts: that of its last rate at ts
CarriedPrice(rates, ts) ==
    LET at == { j \in DOMAIN rates :
                  /\ InstantOf(rates[j].start) # None
                  /\ TimestampOf(InstantOf(rates[j].start)[1]) = ts }
        last == CHOOSE j \in at : \A k \in at : k <= j
    IN  rates[last].price_p_per_kwh

StoreOf(store, k) == IF k \in DOMAIN store THEN store[k] ELSE << >>

\* the keys whose store a call is specified to write: the entry it names,
\* or every loaded entry when it names none (an empty entry_id names none)
SpecifiedTargets(data, entry_id) ==
    IF entry_id # None /\ entry_id[1] # ""
    THEN {entry_id[1]}
    ELSE LoadedEntries(data)

\* C30: a refresh call that names entry X changes only X's store; in the
\* stores it writes it adds or overwrites exactly the timestamps it carries
\* and removes none; a call without entry_id writes the store of every
\* loaded entry and of no other key.
C30_RefreshWritesOnlyItsTargets ==
    [][ call'.fn = "refresh" =>
          LET targets == SpecifiedTargets(hass_data, call'.entry_id)
              before == hass_data.confirmed_rates
              after == hass_data'.confirmed_rates
              carried == CarriedTimestamps(call'.rates)
          IN  /\ DOMAIN after = DOMAIN before \cup targets
              /\ \A k \in DOMAIN after \ targets : after[k] = before[k]
              /\ \A k \in targets :
                    /\ DOMAIN after[k] = DOMAIN StoreOf(before, k) \cup carried
                    /\ \A ts \in DOMAIN after[k] :
                          after[k][ts] =
                              IF ts \in carried
                              THEN CarriedPrice(call'.rates, ts)
                              ELSE before[k][ts]
      ]_vars

\* the frame of C30 for calls that name an entry
C30_NamedCallWritesOnlyItsEntry ==
    [][ (/\ call'.fn = "refresh"
         /\ call'.entry_id \notin {None, Some("")}) =>
          LET x == call'.entry_id[1]
              before == hass_data.confirmed_rates
              after == hass_data'.confirmed_rates
              carried == CarriedTimestamps(call'.rates)
          IN  /\ DOMAIN after = DOMAIN before \cup {x}
              /\ \A k \in DOMAIN after \ {x} : after[k] = before[k]
              /\ DOMAIN after[x] = DOMAIN StoreOf(before, x) \cup carried
              /\ \A ts \in DOMAIN after[x] :
                    after[x][ts] =
                        IF ts \in carried
                        THEN CarriedPrice(call'.rates, ts)
                        ELSE before[x][ts]
      ]_vars

\* a call that named entry e1 has overwritten a timestamp and kept another
C30_WitnessNamedCall ==
    /\ call.fn = "refresh"
    /\ call.entry_id = Some("e1")
    /\ pc = "done"
    /\ Len(call.rates) = 1
    /\ "e1" \in DOMAIN hass_data.confirmed_rates
    /\ "e2" \in DOMAIN hass_data.confirmed_rates
    /\ DOMAIN hass_data.confirmed_rates["e1"] = {36, 37}
    /\ hass_data.confirmed_rates["e1"] # hass_data.confirmed_rates["e2"]

\* a call without entry_id that raised before it reached a loaded entry
C30_WitnessRaised ==
    /\ call.fn = "refresh"
    /\ call.entry_id = None
    /\ pc = "raised"
    /\ LoadedEntries(hass_data) = {"e1", "e2"}
    /\ "confirmed_rates" \in DOMAIN hass_data.confirmed_rates

====
